---- MODULE Spec2Model ----
(***************************************************************************)
(* Model of the local data layer of the supplement-intake tracker:         *)
(*   - LocalStorageService (src/services/LocalStorageService.ts): the      *)
(*     key-value store and every operation that reads or writes it;        *)
(*   - StatsProvider.calculateStats (src/unnamed/part_000): the derived    *)
(*     statistics computed from the in-memory record list.                 *)
(*   - HomeScreen.calculateCurrentMonthStats (src/app/_layout.tsx): the    *)
(*     month progress shown on the home screen.                            *)
(*                                                                         *)
(* Conventions.                                                            *)
(*   * A value that may be null (a getItem result, a User | null) is a     *)
(*     sequence of length at most one: <<>> is null, <<v>> is v.           *)
(*   * A JavaScript object is a function from field names to values; an    *)
(*     optional field that is not set is not in the DOMAIN.  The store     *)
(*     holds the JSON text of such objects, which is determined by the     *)
(*     object itself, so a stored value is written as the object.          *)
(*   * Time is counted in ticks; Date.now() and new Date().toISOString()   *)
(*     both read the variable now.  A calendar day has TicksPerDay ticks,  *)
(*     a "YYYY-MM-DD" string is the number of its day.                     *)
(***************************************************************************)
EXTENDS Integers, Sequences, FiniteSets, TLC

VARIABLES
    store,      \* the AsyncStorage backend: one entry per STORAGE_KEYS key
    now,        \* the clock read by Date.now() / new Date()
    last,       \* the last operation called, its argument and its outcome
    records,    \* RecordsProvider's in-memory record list (useState)
    stats,      \* StatsProvider's in-memory statistics (useState)
    tz,         \* the device's time zone: local time minus UTC, in ticks
    currentMonthStats,  \* HomeScreen's in-memory month statistics (useState)
    auth,       \* AuthProvider's in-memory state (useState)
    settings,   \* SettingsProvider's in-memory settings (useState)
    home,       \* HomeScreen's check-in state (useState)
    recordsLoading,     \* RecordsProvider: a loadRecords call is in flight
    calls       \* createDailyRecord calls that have read the list, per caller

\* the in-memory state of the providers and screens other than the record list
contexts == <<auth, settings, home, recordsLoading, calls>>

vars == <<store, now, last, records, stats, tz, currentMonthStats, contexts>>

----------------------------------------------------------------------------
(* Bounds of the model *)

MaxClock == 1           \* the clock stops ticking at this value
MaxRecords == 2         \* creations are offered while fewer records are stored
MaxStatsRecords == 4    \* longest record list the statistics are run on
MaxRateRecords == 31    \* longest record list the completion rate is run on
TicksPerDay == 2        \* clock ticks per calendar day
Today == 40             \* the calendar day on which the clock starts

----------------------------------------------------------------------------
(* Nullable values *)

None == <<>>
Some(v) == <<v>>
IsSome(o) == Len(o) > 0
Get(o) == o[1]

(* Object spread: { ...a, ...b } *)
Merge(a, b) ==
    [k \in (DOMAIN a) \cup (DOMAIN b) |-> IF k \in DOMAIN b THEN b[k] ELSE a[k]]

(* The empty object {} (also what spreading null gives) *)
EmptyObject == [k \in {} |-> 0]

----------------------------------------------------------------------------
(* Strings whose letters matter: emails *)

LowerChar(c) ==
    CASE c = "A" -> "a"
      [] c = "B" -> "b"
      [] OTHER -> c

\* String.prototype.toLowerCase
toLowerCase(s) == [i \in DOMAIN s |-> LowerChar(s[i])]

Emails == {<<"a", "b">>, <<"A", "B">>, <<"a", "c">>}
Names == {"Ann"}
Passwords == {"pw1", "pw2"}

----------------------------------------------------------------------------
(* The store *)

STORAGE_KEYS ==
    {"registeredUsers", "currentUser", "authToken", "userProfile",
     "dailyRecords", "userSettings", "tutorialSeen"}

EmptyStore == [k \in STORAGE_KEYS |-> None]

\* AsyncStorage.setItem(key, value)
setItem(st, key, value) == [st EXCEPT ![key] = Some(value)]

\* AsyncStorage.multiRemove(keys)
multiRemove(st, keys) == [k \in STORAGE_KEYS |-> IF k \in keys THEN None ELSE st[k]]

(* Outcome of a service operation: the store it leaves, the error it throws
   ("" when it returns normally) and the value it returns. *)
Outcome(st, err, ret) == [store |-> st, err |-> err, ret |-> ret]

\* Variant of RunWrites: the rejected write has taken effect all the same
RunWritesRejectedApplied(st, writes, failAt, ret) ==
    IF failAt = 0 \/ failAt > Len(writes)
    THEN Outcome(IF Len(writes) = 0 THEN st ELSE writes[Len(writes)], "", ret)
    ELSE Outcome(writes[failAt], "StorageWriteError", None)

(* An operation makes its backend writes in order; write number failAt
   rejects (0: none does).  writes is the sequence of stores after each
   write; the operation stops at the rejected write and rethrows. *)
RunWrites(st, writes, failAt, ret) ==
    IF failAt = 0 \/ failAt > Len(writes)
    THEN Outcome(IF Len(writes) = 0 THEN st ELSE writes[Len(writes)], "", ret)
    ELSE Outcome(IF failAt = 1 THEN st ELSE writes[failAt - 1],
                 "StorageWriteError", None)

----------------------------------------------------------------------------
(* Authentication methods *)

\* LocalStorageService.getAllUsers
getAllUsers(st) ==
    IF IsSome(st.registeredUsers) THEN Get(st.registeredUsers) ELSE <<>>

\* Variant of findUserByEmail: the emails are compared as written
findUserByEmailExact(users, email) ==
    LET hits == {i \in DOMAIN users : users[i].email = email}
    IN IF hits = {} THEN None
       ELSE Some(users[CHOOSE i \in hits : \A j \in hits : i <= j])

\* users.find(u => u.email.toLowerCase() === email.toLowerCase())
findUserByEmail(users, email) ==
    LET hits == {i \in DOMAIN users :
                    toLowerCase(users[i].email) = toLowerCase(email)}
    IN IF hits = {} THEN None
       ELSE Some(users[CHOOSE i \in hits : \A j \in hits : i <= j])

defaultProfile(email, name, t) ==
    [name |-> name, email |-> email,
     treatmentStartDate |-> t \div TicksPerDay,
     hasSeenTutorial |-> FALSE,
     createdAt |-> t, updatedAt |-> t]

defaultSettings(t) ==
    [notifications |-> TRUE, reminderTime |-> "09:00",
     dailyGoal |-> 2, weeklyGoal |-> 14,
     theme |-> "light", language |-> "en",
     createdAt |-> t, updatedAt |-> t]

\* Variant of registerUser: the existing-email check is left out
registerUserNoCheck(st, email, password, name, t, failAt) ==
    LET users == getAllUsers(st)
        newUser == [id |-> <<"user", t>>, email |-> email, name |-> name,
                    createdAt |-> t, updatedAt |-> t]
        w1 == setItem(st, "registeredUsers", Append(users, newUser))
        w2 == setItem(w1, "currentUser", newUser)
        w3 == setItem(w2, "authToken", <<"token", t>>)
        w4 == setItem(w3, "userProfile", defaultProfile(email, name, t))
        w5 == setItem(w4, "userSettings", defaultSettings(t))
    IN RunWrites(st, <<w1, w2, w3, w4, w5>>, failAt, Some(newUser))

\* Variant of registerUser: the default settings are not written
registerUserNoSettings(st, email, password, name, t, failAt) ==
    LET users == getAllUsers(st)
        existingUser == findUserByEmail(users, email)
        newUser == [id |-> <<"user", t>>, email |-> email, name |-> name,
                    createdAt |-> t, updatedAt |-> t]
        w1 == setItem(st, "registeredUsers", Append(users, newUser))
        w2 == setItem(w1, "currentUser", newUser)
        w3 == setItem(w2, "authToken", <<"token", t>>)
        w4 == setItem(w3, "userProfile", defaultProfile(email, name, t))
    IN IF IsSome(existingUser)
       THEN Outcome(st, "Email already exists", None)
       ELSE RunWrites(st, <<w1, w2, w3, w4>>, failAt, Some(newUser))

\* LocalStorageService.registerUser
registerUser(st, email, password, name, t, failAt) ==
    LET users == getAllUsers(st)
        existingUser == findUserByEmail(users, email)
        newUser == [id |-> <<"user", t>>, email |-> email, name |-> name,
                    createdAt |-> t, updatedAt |-> t]
        w1 == setItem(st, "registeredUsers", Append(users, newUser))
        w2 == setItem(w1, "currentUser", newUser)
        w3 == setItem(w2, "authToken", <<"token", t>>)
        w4 == setItem(w3, "userProfile", defaultProfile(email, name, t))
        w5 == setItem(w4, "userSettings", defaultSettings(t))
    IN IF IsSome(existingUser)
       THEN Outcome(st, "Email already exists", None)
       ELSE RunWrites(st, <<w1, w2, w3, w4, w5>>, failAt, Some(newUser))

\* Variant of loginUser: a failed login ends the session that was in place
loginUserDropSession(st, email, password, t, failAt) ==
    LET users == getAllUsers(st)
        user == findUserByEmail(users, email)
        w1 == setItem(st, "currentUser", Get(user))
        w2 == setItem(w1, "authToken", <<"token", t>>)
    IN IF ~IsSome(user)
       THEN Outcome(multiRemove(st, {"currentUser", "authToken"}),
                    "User not found", None)
       ELSE RunWrites(st, <<w1, w2>>, failAt, user)

\* LocalStorageService.loginUser
loginUser(st, email, password, t, failAt) ==
    LET users == getAllUsers(st)
        user == findUserByEmail(users, email)
        w1 == setItem(st, "currentUser", Get(user))
        w2 == setItem(w1, "authToken", <<"token", t>>)
    IN IF ~IsSome(user)
       THEN Outcome(st, "User not found", None)
       ELSE RunWrites(st, <<w1, w2>>, failAt, user)

\* Variant of getCurrentUser: the session token is not looked at
getCurrentUserNoToken(st) == st.currentUser

\* LocalStorageService.getCurrentUser
getCurrentUser(st) ==
    IF IsSome(st.currentUser) /\ IsSome(st.authToken)
    THEN st.currentUser
    ELSE None

(* The JavaScript runtime the service runs in.  In a browser window and
   localStorage both exist.  In React Native (iOS, Android) window is the
   global object, so typeof window is not 'undefined', and localStorage is not
   defined: evaluating it throws a ReferenceError.  (A runtime without window
   skips the block and behaves on the store as the browser does.) *)
Runtimes == {"browser", "native"}

\* LocalStorageService.logoutUser
logoutUser(st, runtime, failAt) ==
    LET out == RunWrites(st, <<multiRemove(st, {"currentUser", "authToken"})>>,
                         failAt, None)
    IN IF out.err = "" /\ runtime = "native"
       THEN Outcome(out.store, "ReferenceError", None)
       ELSE out

----------------------------------------------------------------------------
(* User profile methods *)

\* LocalStorageService.getUserProfile
getUserProfile(st) == st.userProfile

\* LocalStorageService.updateUserProfile
updateUserProfile(st, updates, t, failAt) ==
    LET currentProfile == getUserProfile(st)
        spreadCurrent == IF IsSome(currentProfile) THEN Get(currentProfile)
                         ELSE EmptyObject
        updatedProfile == Merge(Merge(spreadCurrent, updates), [updatedAt |-> t])
    IN RunWrites(st, <<setItem(st, "userProfile", updatedProfile)>>, failAt, None)

----------------------------------------------------------------------------
(* Tutorial methods *)

\* LocalStorageService.markTutorialAsSeen
markTutorialAsSeen(st, t, failAt) ==
    LET w1 == setItem(st, "tutorialSeen", "true")
        profile == getUserProfile(w1)
        w2 == updateUserProfile(w1, [hasSeenTutorial |-> TRUE], t, 0).store
    IN RunWrites(st, IF IsSome(profile) THEN <<w1, w2>> ELSE <<w1>>, failAt, None)

\* profile?.hasSeenTutorial === true
profileHasSeenTutorial(profile) ==
    /\ IsSome(profile)
    /\ "hasSeenTutorial" \in DOMAIN Get(profile)
    /\ Get(profile).hasSeenTutorial = TRUE

\* Variant of hasUserSeenTutorial: only the flag key is looked at
hasUserSeenTutorialFlagOnly(st) == st.tutorialSeen = Some("true")

\* LocalStorageService.hasUserSeenTutorial
hasUserSeenTutorial(st) ==
    \/ st.tutorialSeen = Some("true")
    \/ profileHasSeenTutorial(getUserProfile(st))

\* LocalStorageService.resetTutorialStatus
resetTutorialStatus(st, t, failAt) ==
    LET w1 == multiRemove(st, {"tutorialSeen"})
        profile == getUserProfile(w1)
        w2 == updateUserProfile(w1, [hasSeenTutorial |-> FALSE], t, 0).store
    IN RunWrites(st, IF IsSome(profile) THEN <<w1, w2>> ELSE <<w1>>, failAt, None)

----------------------------------------------------------------------------
(* Daily record methods *)

\* new Date(r.date).getTime(): the instant at which calendar day r.date begins
getTime(date) == date * TicksPerDay

\* Variant of compareByDateDesc: the operands swapped (oldest first)
compareByDateAsc(a, b) == getTime(a.date) - getTime(b.date)

\* The comparator of getDailyRecords and calculateStats: negative when a sorts
\* before b, i.e. when a's date is the later one.
compareByDateDesc(a, b) == getTime(b.date) - getTime(a.date)

(* Array.prototype.sort with compareByDateDesc.  The sort is stable: records
   that compare equal keep their order.  insertSorted puts r behind every
   record of the sorted list s that does not sort after it. *)
RECURSIVE insertSorted(_, _)
insertSorted(s, r) ==
    IF s = <<>> THEN <<r>>
    ELSE IF compareByDateDesc(Head(s), r) <= 0
         THEN <<Head(s)>> \o insertSorted(Tail(s), r)
         ELSE <<r>> \o s

RECURSIVE sortByDateDesc(_)
sortByDateDesc(recs) ==
    IF recs = <<>> THEN <<>>
    ELSE insertSorted(sortByDateDesc(SubSeq(recs, 1, Len(recs) - 1)), recs[Len(recs)])

\* LocalStorageService.getDailyRecords
getDailyRecords(st) ==
    LET recs == IF IsSome(st.dailyRecords) THEN Get(st.dailyRecords) ELSE <<>>
    IN sortByDateDesc(recs)

\* Variant of createDailyRecord: the new record takes the place of the stored
\* records of its date
createDailyRecordReplaceDate(st, record, t, failAt) ==
    LET recs == SelectSeq(getDailyRecords(st), LAMBDA r : r.date # record.date)
        recordId == <<"record", t>>
        newRecord == Merge(record, [id |-> recordId, createdAt |-> t, updatedAt |-> t])
    IN RunWrites(st, <<setItem(st, "dailyRecords", Append(recs, newRecord))>>,
                 failAt, Some(recordId))

\* LocalStorageService.createDailyRecord
createDailyRecord(st, record, t, failAt) ==
    LET recs == getDailyRecords(st)
        recordId == <<"record", t>>
        newRecord == Merge(record, [id |-> recordId, createdAt |-> t, updatedAt |-> t])
    IN RunWrites(st, <<setItem(st, "dailyRecords", Append(recs, newRecord))>>,
                 failAt, Some(recordId))

\* Variant of createDailyRecordWrite: the list is read again at the time of
\* the write, and the record appended to what is stored then
createDailyRecordWriteReread(st, recs, record, t, failAt) ==
    LET recordId == <<"record", t>>
        newRecord == Merge(record, [id |-> recordId, createdAt |-> t, updatedAt |-> t])
    IN RunWrites(st, <<setItem(st, "dailyRecords",
                               Append(getDailyRecords(st), newRecord))>>,
                 failAt, Some(recordId))

(* LocalStorageService.createDailyRecord from the point at which its
   'await this.getDailyRecords()' has returned recs: the id and the timestamps
   are taken, the record is pushed onto recs and the list is written back.
   createDailyRecord(st, ...) is this applied to getDailyRecords(st). *)
createDailyRecordWrite(st, recs, record, t, failAt) ==
    LET recordId == <<"record", t>>
        newRecord == Merge(record, [id |-> recordId, createdAt |-> t, updatedAt |-> t])
    IN RunWrites(st, <<setItem(st, "dailyRecords", Append(recs, newRecord))>>,
                 failAt, Some(recordId))

\* LocalStorageService.getDailyRecordByDate
getDailyRecordByDate(st, date) ==
    LET recs == getDailyRecords(st)
        hits == {i \in DOMAIN recs : recs[i].date = date}
    IN IF hits = {} THEN None
       ELSE Some(recs[CHOOSE i \in hits : \A j \in hits : i <= j])

\* records.findIndex(r => r.id === recordId); 0 stands for -1
findIndexById(recs, recordId) ==
    LET hits == {i \in DOMAIN recs : recs[i].id = recordId}
    IN IF hits = {} THEN 0 ELSE CHOOSE i \in hits : \A j \in hits : i <= j

\* Variant of updateDailyRecord: an unknown id is ignored without an error
updateDailyRecordSilent(st, recordId, updates, t, failAt) ==
    LET recs == getDailyRecords(st)
        recordIndex == findIndexById(recs, recordId)
        updated == Merge(Merge(recs[recordIndex], updates), [updatedAt |-> t])
        written == [recs EXCEPT ![recordIndex] = updated]
    IN IF recordIndex = 0
       THEN Outcome(st, "", None)
       ELSE RunWrites(st, <<setItem(st, "dailyRecords", written)>>, failAt, None)

\* LocalStorageService.updateDailyRecord
updateDailyRecord(st, recordId, updates, t, failAt) ==
    LET recs == getDailyRecords(st)
        recordIndex == findIndexById(recs, recordId)
        updated == Merge(Merge(recs[recordIndex], updates), [updatedAt |-> t])
        written == [recs EXCEPT ![recordIndex] = updated]
    IN IF recordIndex = 0
       THEN Outcome(st, "Record not found", None)
       ELSE RunWrites(st, <<setItem(st, "dailyRecords", written)>>, failAt, None)

\* records.filter(r => r.id !== recordId)
RECURSIVE filterOutId(_, _)
filterOutId(recs, recordId) ==
    IF recs = <<>> THEN <<>>
    ELSE IF Head(recs).id # recordId
         THEN <<Head(recs)>> \o filterOutId(Tail(recs), recordId)
         ELSE filterOutId(Tail(recs), recordId)

\* Variant of deleteDailyRecord: an unknown id is an error, as in update
deleteDailyRecordStrict(st, recordId, failAt) ==
    LET recs == getDailyRecords(st)
        filteredRecords == filterOutId(recs, recordId)
    IN IF findIndexById(recs, recordId) = 0
       THEN Outcome(st, "Record not found", None)
       ELSE RunWrites(st, <<setItem(st, "dailyRecords", filteredRecords)>>,
                      failAt, None)

\* LocalStorageService.deleteDailyRecord
deleteDailyRecord(st, recordId, failAt) ==
    LET recs == getDailyRecords(st)
        filteredRecords == filterOutId(recs, recordId)
    IN RunWrites(st, <<setItem(st, "dailyRecords", filteredRecords)>>, failAt, None)

\* LocalStorageService.clearAllDailyRecords
clearAllDailyRecords(st, failAt) ==
    RunWrites(st, <<setItem(st, "dailyRecords", <<>>)>>, failAt, None)

----------------------------------------------------------------------------
(* User settings methods *)

\* LocalStorageService.getUserSettings: a read that stores the defaults when
\* no settings are stored.  ret is the settings object returned.
getUserSettings(st, t) ==
    IF IsSome(st.userSettings)
    THEN Outcome(st, "", Get(st.userSettings))
    ELSE Outcome(setItem(st, "userSettings", defaultSettings(t)), "", defaultSettings(t))

\* LocalStorageService.updateUserSettings
updateUserSettings(st, updates, t, failAt) ==
    LET got == getUserSettings(st, t)
        updatedSettings == Merge(Merge(got.ret, updates), [updatedAt |-> t])
    IN RunWrites(got.store, <<setItem(got.store, "userSettings", updatedSettings)>>,
                 failAt, None)

----------------------------------------------------------------------------
(* Data management *)

\* Variant of exportAllData: the store is left as it was found
exportAllDataReadOnly(st, t) ==
    LET got == getUserSettings(st, t)
        data == [user |-> getCurrentUser(st),
                 profile |-> getUserProfile(st),
                 records |-> Some(getDailyRecords(st)),
                 settings |-> Some(got.ret),
                 metadata |-> [version |-> "1.0.0", exportDate |-> t,
                               platform |-> "MaxTestorin Tracker"]]
    IN Outcome(st, "", Some(data))

\* LocalStorageService.exportAllData: ret is the exported document
exportAllData(st, t) ==
    LET got == getUserSettings(st, t)
        data == [user |-> getCurrentUser(st),
                 profile |-> getUserProfile(st),
                 records |-> Some(getDailyRecords(st)),
                 settings |-> Some(got.ret),
                 metadata |-> [version |-> "1.0.0", exportDate |-> t,
                               platform |-> "MaxTestorin Tracker"]]
    IN Outcome(got.store, "", Some(data))

\* Variant of importAllData: the settings of the document are not written
importAllDataNoSettings(st, data, failAt) ==
    LET s1 == IF IsSome(data.profile)
              THEN <<setItem(st, "userProfile", Get(data.profile))>> ELSE <<>>
        st1 == IF s1 = <<>> THEN st ELSE s1[1]
        s2 == IF IsSome(data.records)
              THEN <<setItem(st1, "dailyRecords", Get(data.records))>> ELSE <<>>
    IN RunWrites(st, s1 \o s2, failAt, None)

\* Variant of importAllData: the profile of the document is merged into the
\* stored profile
importAllDataMerged(st, data, failAt) ==
    LET merged == IF IsSome(st.userProfile)
                  THEN Merge(Get(st.userProfile), Get(data.profile))
                  ELSE Get(data.profile)
        s1 == IF IsSome(data.profile)
              THEN <<setItem(st, "userProfile", merged)>> ELSE <<>>
        st1 == IF s1 = <<>> THEN st ELSE s1[1]
        s2 == IF IsSome(data.records)
              THEN <<setItem(st1, "dailyRecords", Get(data.records))>> ELSE <<>>
        st2 == IF s2 = <<>> THEN st1 ELSE s2[1]
        s3 == IF IsSome(data.settings)
              THEN <<setItem(st2, "userSettings", Get(data.settings))>> ELSE <<>>
    IN RunWrites(st, s1 \o s2 \o s3, failAt, None)

\* LocalStorageService.importAllData, for a document that parses
importAllData(st, data, failAt) ==
    LET s1 == IF IsSome(data.profile)
              THEN <<setItem(st, "userProfile", Get(data.profile))>> ELSE <<>>
        st1 == IF s1 = <<>> THEN st ELSE s1[1]
        s2 == IF IsSome(data.records)
              THEN <<setItem(st1, "dailyRecords", Get(data.records))>> ELSE <<>>
        st2 == IF s2 = <<>> THEN st1 ELSE s2[1]
        s3 == IF IsSome(data.settings)
              THEN <<setItem(st2, "userSettings", Get(data.settings))>> ELSE <<>>
    IN RunWrites(st, s1 \o s2 \o s3, failAt, None)

\* LocalStorageService.clearAllData
clearAllData(st, failAt) ==
    RunWrites(st, <<multiRemove(st, STORAGE_KEYS)>>, failAt, None)

----------------------------------------------------------------------------
(* The read operations over a backend whose reads may fail.  faults gives, for
   each key, what happens when a call reads it: "ok", "rejected" (getItem
   throws) or "malformed" (getItem returns a text that JSON.parse rejects; for
   the tutorial flag, which is not parsed, a text other than "true"). *)

FaultKinds == {"ok", "rejected", "malformed"}

\* the fault assignments that leave every key outside keys readable
FaultsOn(keys) ==
    {f \in [STORAGE_KEYS -> FaultKinds] : \A k \in STORAGE_KEYS \ keys : f[k] = "ok"}

\* LocalStorageService.getCurrentUser: both keys are read, then the user is
\* parsed if both hold a text; the catch block returns null
getCurrentUserUnder(st, faults) ==
    IF faults.currentUser = "rejected" \/ faults.authToken = "rejected"
    THEN Outcome(st, "", None)
    ELSE IF IsSome(st.currentUser) /\ IsSome(st.authToken)
         THEN IF faults.currentUser = "malformed"
              THEN Outcome(st, "", None)
              ELSE Outcome(st, "", st.currentUser)
         ELSE Outcome(st, "", None)

\* LocalStorageService.getUserProfile: the catch block returns null
getUserProfileUnder(st, faults) ==
    IF faults.userProfile = "rejected" THEN Outcome(st, "", None)
    ELSE IF IsSome(st.userProfile) /\ faults.userProfile = "malformed"
         THEN Outcome(st, "", None)
         ELSE Outcome(st, "", getUserProfile(st))

\* Variant of getDailyRecordsUnder: the catch block rethrows
getDailyRecordsUnderRethrow(st, faults) ==
    IF faults.dailyRecords = "rejected" THEN Outcome(st, "StorageReadError", None)
    ELSE IF IsSome(st.dailyRecords) /\ faults.dailyRecords = "malformed"
         THEN Outcome(st, "SyntaxError", None)
         ELSE Outcome(st, "", Some(getDailyRecords(st)))

\* LocalStorageService.getDailyRecords: the catch block returns []
getDailyRecordsUnder(st, faults) ==
    IF faults.dailyRecords = "rejected" THEN Outcome(st, "", Some(<<>>))
    ELSE IF IsSome(st.dailyRecords) /\ faults.dailyRecords = "malformed"
         THEN Outcome(st, "", Some(<<>>))
         ELSE Outcome(st, "", Some(getDailyRecords(st)))

\* LocalStorageService.getUserSettings: the catch block returns the default
\* settings and writes nothing
getUserSettingsUnder(st, faults, t) ==
    IF faults.userSettings = "rejected" THEN Outcome(st, "", Some(defaultSettings(t)))
    ELSE IF IsSome(st.userSettings) /\ faults.userSettings = "malformed"
         THEN Outcome(st, "", Some(defaultSettings(t)))
         ELSE LET got == getUserSettings(st, t)
              IN Outcome(got.store, "", Some(got.ret))

\* LocalStorageService.hasUserSeenTutorial: the flag is read and compared with
\* 'true', the profile is read through getUserProfile (which swallows its own
\* failures); the catch block returns false
hasUserSeenTutorialUnder(st, faults) ==
    IF faults.tutorialSeen = "rejected" THEN Outcome(st, "", Some(FALSE))
    ELSE LET tutorialSeen == IF faults.tutorialSeen = "malformed" THEN None
                             ELSE st.tutorialSeen
             profile == getUserProfileUnder(st, faults).ret
         IN Outcome(st, "", Some(\/ tutorialSeen = Some("true")
                                 \/ profileHasSeenTutorial(profile)))

(* The record operations that read the list through getDailyRecords before
   they write it back, over a backend whose reads may fail *)

\* LocalStorageService.createDailyRecord
createDailyRecordUnder(st, faults, record, t, failAt) ==
    LET recs == Get(getDailyRecordsUnder(st, faults).ret)
        recordId == <<"record", t>>
        newRecord == Merge(record, [id |-> recordId, createdAt |-> t, updatedAt |-> t])
    IN RunWrites(st, <<setItem(st, "dailyRecords", Append(recs, newRecord))>>,
                 failAt, Some(recordId))

\* LocalStorageService.updateDailyRecord
updateDailyRecordUnder(st, faults, recordId, updates, t, failAt) ==
    LET recs == Get(getDailyRecordsUnder(st, faults).ret)
        recordIndex == findIndexById(recs, recordId)
        updated == Merge(Merge(recs[recordIndex], updates), [updatedAt |-> t])
        written == [recs EXCEPT ![recordIndex] = updated]
    IN IF recordIndex = 0
       THEN Outcome(st, "Record not found", None)
       ELSE RunWrites(st, <<setItem(st, "dailyRecords", written)>>, failAt, None)

\* LocalStorageService.deleteDailyRecord
deleteDailyRecordUnder(st, faults, recordId, failAt) ==
    LET recs == Get(getDailyRecordsUnder(st, faults).ret)
        filteredRecords == filterOutId(recs, recordId)
    IN RunWrites(st, <<setItem(st, "dailyRecords", filteredRecords)>>, failAt, None)

----------------------------------------------------------------------------
(* Derived statistics: StatsProvider.calculateStats *)

WindowDays == 30        \* thirtyDaysAgo.setDate(getDate() - 30), and "/ 30"
Percent == 100          \* "* 100"

\* new Date(t).toISOString().split('T')[0]: the calendar day instant t lies in
toISODate(t) == t \div TicksPerDay

\* d.setDate(d.getDate() - n) on the instant t: the same time of day n days
\* earlier (the device's UTC offset being the same on both days)
setDateBack(t, n) == t - n * TicksPerDay

\* A quotient a / b kept exact
Ratio(a, b) == [num |-> a, den |-> b]

\* Variant of filterCompleted: every record is kept, completed or not
filterCompletedKeepAll(recs) == recs

\* records.filter(r => r.completed)
RECURSIVE filterCompleted(_)
filterCompleted(recs) ==
    IF recs = <<>> THEN <<>>
    ELSE IF Head(recs).completed
         THEN <<Head(recs)>> \o filterCompleted(Tail(recs))
         ELSE filterCompleted(Tail(recs))

\* completedRecords.reduce((sum, r) => sum + r.capsules, 0)
RECURSIVE sumCapsules(_)
sumCapsules(recs) ==
    IF recs = <<>> THEN 0 ELSE sumCapsules(SubSeq(recs, 1, Len(recs) - 1))
                               + recs[Len(recs)].capsules

\* Variant of streakFrom: a record off the expected day is skipped (continue)
\* where the loop ends (break)
RECURSIVE streakFromNoBreak(_, _, _)
streakFromNoBreak(streakRecords, i, t) ==
    IF i >= Len(streakRecords) THEN 0
    ELSE LET recordDate == streakRecords[i + 1].date
             expectedDateStr == toISODate(setDateBack(t, i))
         IN (IF recordDate = expectedDateStr THEN 1 ELSE 0)
            + streakFromNoBreak(streakRecords, i + 1, t)

\* The streak loop from index i (0-based) on: counts the records whose date is
\* the day of the instant i days back, and stops at the first that is not.
RECURSIVE streakFrom(_, _, _)
streakFrom(streakRecords, i, t) ==
    IF i >= Len(streakRecords) THEN 0
    ELSE LET recordDate == streakRecords[i + 1].date
             expectedDateStr == toISODate(setDateBack(t, i))
         IN IF recordDate = expectedDateStr
            THEN 1 + streakFrom(streakRecords, i + 1, t)
            ELSE 0

\* records.filter(r => new Date(r.date) >= thirtyDaysAgo)
RECURSIVE filterLast30Days(_, _)
filterLast30Days(recs, thirtyDaysAgo) ==
    IF recs = <<>> THEN <<>>
    ELSE IF getTime(Head(recs).date) >= thirtyDaysAgo
         THEN <<Head(recs)>> \o filterLast30Days(Tail(recs), thirtyDaysAgo)
         ELSE filterLast30Days(Tail(recs), thirtyDaysAgo)

\* StatsProvider.calculateStats: the statistics it passes to setStats
calculateStats(recs, t) ==
    LET completedRecords == filterCompleted(recs)
        totalDays == Len(completedRecords)
        totalCapsules == sumCapsules(completedRecords)
        averageCapsules == IF totalDays > 0 THEN Ratio(totalCapsules, totalDays)
                           ELSE Ratio(0, 1)
        streakRecords == sortByDateDesc(completedRecords)
        currentStreak == streakFrom(streakRecords, 0, t)
        thirtyDaysAgo == setDateBack(t, WindowDays)
        last30DaysRecords == filterLast30Days(recs, thirtyDaysAgo)
        completedLast30Days == Len(filterCompleted(last30DaysRecords))
        completionRate == Ratio(completedLast30Days * Percent, WindowDays)
    IN [totalDays |-> totalDays,
        currentStreak |-> currentStreak,
        averageCapsules |-> averageCapsules,
        completionRate |-> completionRate,
        totalCapsules |-> totalCapsules,
        monthlyProgress |-> completionRate,
        completedDaysThisMonth |-> completedLast30Days]

----------------------------------------------------------------------------
(* Month statistics of the home screen: HomeScreen.calculateCurrentMonthStats *)

(* The calendar.  Day 0 is the first of January; DaysInMonths gives the length
   of January, February, March and April of a common year, so that Today lies
   in February. *)
DaysInMonths == <<31, 28, 31, 30>>

\* the day on which month m (1-based) begins
RECURSIVE monthStart(_)
monthStart(m) == IF m = 1 THEN 0 ELSE monthStart(m - 1) + DaysInMonths[m - 1]

\* Date.prototype.getMonth of a day of the calendar (1-based here)
getMonth(d) ==
    CHOOSE m \in DOMAIN DaysInMonths :
        monthStart(m) <= d /\ d < monthStart(m) + DaysInMonths[m]

\* the local calendar day the instant t lies in, for a device at offset
localDay(t, offset) == (t + offset) \div TicksPerDay

\* new Date(year, month, day): the instant at which local day d begins
localMidnight(d, offset) == d * TicksPerDay - offset

\* records.filter(r => recordDate >= firstDay && recordDate <= lastDay)
RECURSIVE filterBetween(_, _, _)
filterBetween(recs, firstDay, lastDay) ==
    IF recs = <<>> THEN <<>>
    ELSE IF getTime(Head(recs).date) >= firstDay /\ getTime(Head(recs).date) <= lastDay
         THEN <<Head(recs)>> \o filterBetween(Tail(recs), firstDay, lastDay)
         ELSE filterBetween(Tail(recs), firstDay, lastDay)

\* HomeScreen.calculateCurrentMonthStats: the value it passes to
\* setCurrentMonthStats.  new Date(record.date) is the instant at which day
\* record.date begins in UTC; firstDay and lastDay are the instants at which
\* the first and the last day of the month begin on the device.
calculateCurrentMonthStats(recs, t, offset) ==
    LET month == getMonth(localDay(t, offset))
        firstDayOfMonth == monthStart(month)
        lastDayOfMonth == monthStart(month) + DaysInMonths[month] - 1
        firstDay == localMidnight(firstDayOfMonth, offset)
        lastDay == localMidnight(lastDayOfMonth, offset)
        totalDaysInMonth == lastDayOfMonth - firstDayOfMonth + 1
        currentMonthRecords == filterBetween(recs, firstDay, lastDay)
        completedDays == Len(filterCompleted(currentMonthRecords))
    IN [progress |-> Ratio(completedDays * Percent, totalDaysInMonth),
        completedDays |-> completedDays,
        totalDaysInMonth |-> totalDaysInMonth]

----------------------------------------------------------------------------
(* The providers: AuthProvider, SettingsProvider, RecordsProvider.  A method
   of a provider is given the store and the provider's in-memory state and
   gives the store it leaves, the in-memory state it sets (mem) and the error
   it throws to its caller ("" when it returns normally). *)

ContextOutcome(st, mem, err) == [store |-> st, mem |-> mem, err |-> err]

\* AuthProvider.register
register(st, a, email, password, name, t, failAt) ==
    LET out == registerUser(st, email, password, name, t, failAt)
    IN IF out.err = ""
       THEN ContextOutcome(out.store,
                [user |-> out.ret, userProfile |-> getUserProfile(out.store),
                 isAuthenticated |-> TRUE, loading |-> FALSE, error |-> None],
                "")
       ELSE ContextOutcome(out.store,
                [a EXCEPT !.loading = FALSE,
                          !.error = Some("Registration failed. Please try again.")],
                out.err)

\* AuthProvider.login
login(st, a, email, password, t, failAt) ==
    LET out == loginUser(st, email, password, t, failAt)
    IN IF out.err = ""
       THEN ContextOutcome(out.store,
                [user |-> out.ret, userProfile |-> getUserProfile(out.store),
                 isAuthenticated |-> TRUE, loading |-> FALSE, error |-> None],
                "")
       ELSE ContextOutcome(out.store,
                [a EXCEPT !.loading = FALSE,
                          !.error = Some("Login failed. Please check your credentials.")],
                out.err)

\* Variant of logout: when the service fails the error goes to the caller
\* and the in-memory session is kept
logoutRethrow(st, a, runtime, failAt) ==
    LET out == logoutUser(st, runtime, failAt)
    IN IF out.err = ""
       THEN ContextOutcome(out.store,
                [user |-> None, userProfile |-> None, isAuthenticated |-> FALSE,
                 loading |-> FALSE, error |-> None], "")
       ELSE ContextOutcome(out.store, [a EXCEPT !.loading = FALSE], out.err)

\* AuthProvider.logout: the try block and the catch block both clear the
\* session held in memory, the finally block sets loading to false
logout(st, a, runtime, failAt) ==
    LET out == logoutUser(st, runtime, failAt)
    IN IF out.err = ""
       THEN ContextOutcome(out.store,
                [user |-> None, userProfile |-> None, isAuthenticated |-> FALSE,
                 loading |-> FALSE, error |-> None], "")
       ELSE ContextOutcome(out.store,
                [user |-> None, userProfile |-> None, isAuthenticated |-> FALSE,
                 loading |-> FALSE, error |-> None], "")

\* AuthProvider.updateUserProfile:
\* setUserProfile(prev => prev ? { ...prev, ...updates } : null)
updateUserProfileInContext(st, a, updates, t, failAt) ==
    LET out == updateUserProfile(st, updates, t, failAt)
    IN IF out.err = ""
       THEN ContextOutcome(out.store,
                [a EXCEPT !.error = None,
                          !.userProfile = IF IsSome(a.userProfile)
                                          THEN Some(Merge(Get(a.userProfile), updates))
                                          ELSE None],
                "")
       ELSE ContextOutcome(out.store,
                [a EXCEPT !.error = Some("Failed to update profile. Please try again.")],
                out.err)

\* SettingsProvider.loadSettings: setSettings(await getUserSettings())
loadSettings(st, t) ==
    LET got == getUserSettings(st, t)
    IN ContextOutcome(got.store, got.ret, "")

\* SettingsProvider.updateSettings: setSettings(prev => ({ ...prev, ...updates }))
updateSettings(st, s, updates, t, failAt) ==
    LET out == updateUserSettings(st, updates, t, failAt)
    IN IF out.err = ""
       THEN ContextOutcome(out.store, Merge(s, updates), "")
       ELSE ContextOutcome(out.store, s, out.err)

\* RecordsProvider.loadRecords: setRecords(await getDailyRecords())
loadRecords(st) == ContextOutcome(st, getDailyRecords(st), "")

\* RecordsProvider.createRecord: createDailyRecord, then loadRecords
createRecord(st, recs, recordData, t, failAt) ==
    LET out == createDailyRecord(st, recordData, t, failAt)
    IN IF out.err = "" THEN loadRecords(out.store)
       ELSE ContextOutcome(out.store, recs, out.err)

\* RecordsProvider.updateRecord: updateDailyRecord, then loadRecords
updateRecord(st, recs, recordId, updates, t, failAt) ==
    LET out == updateDailyRecord(st, recordId, updates, t, failAt)
    IN IF out.err = "" THEN loadRecords(out.store)
       ELSE ContextOutcome(out.store, recs, out.err)

\* RecordsProvider.deleteRecord: deleteDailyRecord, then loadRecords
deleteRecord(st, recs, recordId, failAt) ==
    LET out == deleteDailyRecord(st, recordId, failAt)
    IN IF out.err = "" THEN loadRecords(out.store)
       ELSE ContextOutcome(out.store, recs, out.err)

----------------------------------------------------------------------------
(* The check-in of the home screen: HomeScreen.toggleDailyCompletion *)

\* records.find(record => record.date === currentDate)
findByDate(recs, date) ==
    LET hits == {i \in DOMAIN recs : recs[i].date = date}
    IN IF hits = {} THEN None
       ELSE Some(recs[CHOOSE i \in hits : \A j \in hits : i <= j])

(* toggleDailyCompletion up to its first await, on the screen state h and the
   record list recs the screen was rendered with.  It returns at once while a
   check-in is in flight (loading), when today's record in recs is completed,
   and when the day has changed; otherwise it sets loading and goes on to
   update the record of today that recs holds, or to create one (target). *)
toggleDailyCompletion(h, recs, t) ==
    LET currentTodayRecord == findByDate(recs, h.currentDate)
        alreadyCompleted == IsSome(currentTodayRecord)
                            /\ Get(currentTodayRecord).completed
        currentDay == toISODate(t)
        recordData == [date |-> h.currentDate, capsules |-> 2, time |-> "08:00",
                       notes |-> "", completed |-> TRUE]
    IN IF h.loading THEN h
       ELSE IF alreadyCompleted THEN h
       ELSE IF currentDay # h.currentDate THEN [h EXCEPT !.currentDate = currentDay]
       ELSE [h EXCEPT !.loading = TRUE,
                      !.target = Some([id |-> IF IsSome(currentTodayRecord)
                                              THEN Some(Get(currentTodayRecord).id)
                                              ELSE None,
                                       recordData |-> recordData])]

(* toggleDailyCompletion from its first await on: updateRecord or createRecord
   of RecordsProvider.  err is the failure of that call, which the handler
   catches and shows; it throws nothing itself. *)
toggleDailyCompletionWrite(st, recs, target, t, failAt) ==
    IF IsSome(target.id)
    THEN updateRecord(st, recs, Get(target.id), target.recordData, t, failAt)
    ELSE createRecord(st, recs, target.recordData, t, failAt)

----------------------------------------------------------------------------
(* Inputs offered to the operations *)

Clock0 == Today * TicksPerDay       \* the instant at which the clock starts

\* Omit<DailyRecord, 'id' | 'createdAt' | 'updatedAt'>, notes being optional
RecordInputs ==
    {[date |-> Today - 1, capsules |-> 2, time |-> "08:00", completed |-> TRUE],
     [date |-> Today, capsules |-> 2, time |-> "08:00", completed |-> FALSE],
     [date |-> Today, capsules |-> 2, time |-> "08:00", notes |-> "",
      completed |-> TRUE]}

\* an id no record ever has: the clock never read a time before Clock0
AbsentId == <<"record", Clock0 - 1>>

\* the ids createDailyRecord can have given, and AbsentId
RecordIds == {<<"record", t>> : t \in Clock0 - 1 .. Clock0 + MaxClock}

\* Partial<DailyRecord>
RecordUpdates == {[date |-> Today - 1, completed |-> TRUE]}

\* Partial<UserProfile>
ProfileUpdates == {[name |-> "Bob", phone |-> "555"]}

\* Partial<UserSettings>
SettingsUpdates == {[theme |-> "dark"]}

\* A partial update that names the two timestamp fields (both are fields of
\* UserProfile, DailyRecord and UserSettings, so of their Partial<> types);
\* the value is the epoch, an instant before the clock started
TimestampUpdates == {[createdAt |-> 0, updatedAt |-> 0]}

\* Documents given to importAllData: each of profile, records and settings is
\* present or not; user and metadata are whatever an export wrote.
ImportRecordLists ==
    {<<>>,
     << [id |-> <<"record", Clock0>>, date |-> Today - 1, capsules |-> 1,
         time |-> "07:00", completed |-> FALSE,
         createdAt |-> Clock0, updatedAt |-> Clock0],
        [id |-> <<"record", Clock0 + 1>>, date |-> Today, capsules |-> 2,
         time |-> "08:00", completed |-> TRUE,
         createdAt |-> Clock0 + 1, updatedAt |-> Clock0 + 1] >>}

ImportDocs ==
    {[user |-> None, profile |-> p, records |-> r, settings |-> s,
      metadata |-> [version |-> "1.0.0", exportDate |-> Clock0,
                    platform |-> "MaxTestorin Tracker"]] :
        p \in {None, Some([name |-> "Eve", email |-> <<"e">>,
                           createdAt |-> Clock0, updatedAt |-> Clock0])},
        r \in {None} \cup {Some(l) : l \in ImportRecordLists},
        s \in {None, Some(Merge(defaultSettings(Clock0), [language |-> "pt"]))}}

\* The same documents, and each of them carrying the user and the metadata of
\* an export made on another device
ImportDocsAnyUser ==
    ImportDocs
    \cup {Merge(d, [user |-> Some([id |-> <<"user", Clock0 - 1>>,
                                   email |-> <<"e">>, name |-> "Eve",
                                   createdAt |-> Clock0 - 1,
                                   updatedAt |-> Clock0 - 1]),
                    metadata |-> [version |-> "0.9.0", exportDate |-> Clock0 - 1,
                                  platform |-> "other"]]) : d \in ImportDocs}

\* Dates of the records the statistics are run on: tomorrow, the days of the
\* spec's streak example, and the day the 30-day window begins or has just left
StatsDates == {Today + 1, Today, Today - 1, Today - 2, Today - 5, Today - WindowDays}

\* Records as getDailyRecords returns them
StatsRecords ==
    {[id |-> <<"record", Clock0>>, date |-> d, capsules |-> cc[1],
      time |-> "08:00", completed |-> cc[2],
      createdAt |-> Clock0, updatedAt |-> Clock0] :
        d \in StatsDates, cc \in {<<2, TRUE>>, <<3, TRUE>>, <<2, FALSE>>}}

\* Two records as getDailyRecords returns them, completed, one dated today
\* and one dated tomorrow (one record of each stands for all the records of
\* its date: calculateStats reads date and completed, never the id)
RateRecords ==
    {[id |-> <<"record", Clock0 + (d - Today)>>, date |-> d, capsules |-> 2,
      time |-> "08:00", completed |-> TRUE,
      createdAt |-> Clock0, updatedAt |-> Clock0] : d \in {Today, Today + 1}}

\* Time zones of the device: from almost a day behind UTC to almost a day ahead
TimeZoneOffsets == 1 - TicksPerDay .. TicksPerDay - 1

\* Dates of the records the home screen is given: the last day of the month
\* before the month of Today, the first day of that month, Today, its last day
\* and the first day of the month after
HomeDates ==
    LET m == getMonth(Today)
    IN {monthStart(m) - 1, monthStart(m), Today,
        monthStart(m) + DaysInMonths[m] - 1, monthStart(m) + DaysInMonths[m]}

HomeRecords ==
    {[id |-> <<"record", Clock0>>, date |-> d, capsules |-> 2,
      time |-> "08:00", completed |-> TRUE,
      createdAt |-> Clock0, updatedAt |-> Clock0] : d \in HomeDates}
    \cup {[id |-> <<"record", Clock0>>, date |-> Today, capsules |-> 2,
           time |-> "08:00", completed |-> FALSE,
           createdAt |-> Clock0, updatedAt |-> Clock0]}

\* list l with r put in at position i (1 .. Len(l) + 1)
InsertAt(l, i, r) == SubSeq(l, 1, i - 1) \o <<r>> \o SubSeq(l, i, Len(l))

\* l is in the order getDailyRecords returns: no record before a later-dated one
IsDateDescending(l) == \A i \in 1..Len(l) - 1 : l[i].date >= l[i + 1].date

----------------------------------------------------------------------------
(* The storage-service state machine: one action per operation of
   LocalStorageService, the caller's inputs drawn from the sets given. *)

\* the callers that may have a createDailyRecord call in flight
Callers == {1, 2}

\* AuthProvider with nobody logged in, once checkAuthState has run
LoggedOut ==
    [user |-> None, userProfile |-> None, isAuthenticated |-> FALSE,
     loading |-> FALSE, error |-> None]

(* The providers and the home screen once they are mounted over a store with
   no session: nobody is logged in, the settings are the initial value of
   useState, no check-in and no call is in flight. *)
InitContexts ==
    /\ auth = LoggedOut
    /\ settings = defaultSettings(now)
    /\ home = [loading |-> FALSE, currentDate |-> toISODate(now), target |-> None]
    /\ recordsLoading = FALSE
    /\ calls = [p \in Callers |-> None]

NoArg == None
Last(op, arg, out) == [op |-> op, arg |-> arg, err |-> out.err, ret |-> out.ret]
Read(op, arg, ret) == [op |-> op, arg |-> arg, err |-> "", ret |-> ret]

Init ==
    /\ store = EmptyStore
    /\ now = Clock0
    /\ last = Read("init", NoArg, None)
    /\ records = <<>>
    /\ stats = calculateStats(<<>>, Clock0)
    /\ tz = 0
    /\ currentMonthStats = calculateCurrentMonthStats(<<>>, Clock0, 0)
    /\ InitContexts

\* time passes between two operations
Tick ==
    /\ now < Clock0 + MaxClock
    /\ now' = now + 1
    /\ last' = Read("tick", NoArg, None)
    /\ UNCHANGED <<store, records, stats, tz, currentMonthStats, contexts>>

RegisterUser(emails, fails) ==
    \E email \in emails, password \in Passwords, name \in Names, failAt \in fails :
        LET out == registerUser(store, email, password, name, now, failAt)
        IN /\ Len(getAllUsers(store)) < Cardinality(emails)
           /\ store' = out.store
           /\ last' = Last("registerUser", Some(email), out)
           /\ UNCHANGED <<now, records, stats, tz, currentMonthStats, contexts>>

LoginUser(emails, fails) ==
    \E email \in emails, password \in Passwords, failAt \in fails :
        LET out == loginUser(store, email, password, now, failAt)
        IN /\ store' = out.store
           /\ last' = Last("loginUser", Some(email), out)
           /\ UNCHANGED <<now, records, stats, tz, currentMonthStats, contexts>>

GetCurrentUser ==
    /\ last' = Read("getCurrentUser", NoArg, getCurrentUser(store))
    /\ UNCHANGED <<store, now, records, stats, tz, currentMonthStats, contexts>>

LogoutUser(fails) ==
    \E runtime \in Runtimes, failAt \in fails :
        LET out == logoutUser(store, runtime, failAt)
        IN /\ store' = out.store
           /\ last' = Last("logoutUser", NoArg, out)
           /\ UNCHANGED <<now, records, stats, tz, currentMonthStats, contexts>>

GetUserProfile ==
    /\ last' = Read("getUserProfile", NoArg, getUserProfile(store))
    /\ UNCHANGED <<store, now, records, stats, tz, currentMonthStats, contexts>>

UpdateUserProfile(partials, fails) ==
    \E updates \in partials, failAt \in fails :
        LET out == updateUserProfile(store, updates, now, failAt)
        IN /\ store' = out.store
           /\ last' = Last("updateUserProfile", Some(updates), out)
           /\ UNCHANGED <<now, records, stats, tz, currentMonthStats, contexts>>

MarkTutorialAsSeen(fails) ==
    \E failAt \in fails :
        LET out == markTutorialAsSeen(store, now, failAt)
        IN /\ store' = out.store
           /\ last' = Last("markTutorialAsSeen", NoArg, out)
           /\ UNCHANGED <<now, records, stats, tz, currentMonthStats, contexts>>

HasUserSeenTutorial ==
    /\ last' = Read("hasUserSeenTutorial", NoArg, Some(hasUserSeenTutorial(store)))
    /\ UNCHANGED <<store, now, records, stats, tz, currentMonthStats, contexts>>

ResetTutorialStatus(fails) ==
    \E failAt \in fails :
        LET out == resetTutorialStatus(store, now, failAt)
        IN /\ store' = out.store
           /\ last' = Last("resetTutorialStatus", NoArg, out)
           /\ UNCHANGED <<now, records, stats, tz, currentMonthStats, contexts>>

CreateDailyRecord(inputs, cap, fails) ==
    \E record \in inputs, failAt \in fails :
        LET out == createDailyRecord(store, record, now, failAt)
        IN /\ Len(getDailyRecords(store)) < cap
           /\ store' = out.store
           /\ last' = Last("createDailyRecord", Some(record), out)
           /\ UNCHANGED <<now, records, stats, tz, currentMonthStats, contexts>>

GetDailyRecords ==
    /\ last' = Read("getDailyRecords", NoArg, Some(getDailyRecords(store)))
    /\ UNCHANGED <<store, now, records, stats, tz, currentMonthStats, contexts>>

UpdateDailyRecord(ids, partials, fails) ==
    \E recordId \in ids, updates \in partials, failAt \in fails :
        LET out == updateDailyRecord(store, recordId, updates, now, failAt)
        IN /\ store' = out.store
           /\ last' = Last("updateDailyRecord", Some(recordId), out)
           /\ UNCHANGED <<now, records, stats, tz, currentMonthStats, contexts>>

DeleteDailyRecord(ids, fails) ==
    \E recordId \in ids, failAt \in fails :
        LET out == deleteDailyRecord(store, recordId, failAt)
        IN /\ store' = out.store
           /\ last' = Last("deleteDailyRecord", Some(recordId), out)
           /\ UNCHANGED <<now, records, stats, tz, currentMonthStats, contexts>>

ClearAllDailyRecords(fails) ==
    \E failAt \in fails :
        LET out == clearAllDailyRecords(store, failAt)
        IN /\ store' = out.store
           /\ last' = Last("clearAllDailyRecords", NoArg, out)
           /\ UNCHANGED <<now, records, stats, tz, currentMonthStats, contexts>>

GetUserSettings ==
    LET out == getUserSettings(store, now)
    IN /\ store' = out.store
       /\ last' = Read("getUserSettings", NoArg, Some(out.ret))
       /\ UNCHANGED <<now, records, stats, tz, currentMonthStats, contexts>>

UpdateUserSettings(partials, fails) ==
    \E updates \in partials, failAt \in fails :
        LET out == updateUserSettings(store, updates, now, failAt)
        IN /\ store' = out.store
           /\ last' = Last("updateUserSettings", Some(updates), out)
           /\ UNCHANGED <<now, records, stats, tz, currentMonthStats, contexts>>

ExportAllData ==
    LET out == exportAllData(store, now)
    IN /\ store' = out.store
       /\ last' = Last("exportAllData", NoArg, out)
       /\ UNCHANGED <<now, records, stats, tz, currentMonthStats, contexts>>

ImportAllData(docs, fails) ==
    \E data \in docs, failAt \in fails :
        LET out == importAllData(store, data, failAt)
        IN /\ store' = out.store
           /\ last' = Last("importAllData", Some(data), out)
           /\ UNCHANGED <<now, records, stats, tz, currentMonthStats, contexts>>

ClearAllData(fails) ==
    \E failAt \in fails :
        LET out == clearAllData(store, failAt)
        IN /\ store' = out.store
           /\ last' = Last("clearAllData", NoArg, out)
           /\ UNCHANGED <<now, records, stats, tz, currentMonthStats, contexts>>

(* The read operations, each call under some assignment of faults to the keys
   it reads; the assignment is recorded as the argument of the call. *)
GetCurrentUserUnder ==
    \E faults \in FaultsOn({"currentUser", "authToken"}) :
        LET out == getCurrentUserUnder(store, faults)
        IN /\ store' = out.store
           /\ last' = Last("getCurrentUser", Some(faults), out)
           /\ UNCHANGED <<now, records, stats, tz, currentMonthStats, contexts>>

GetUserProfileUnder ==
    \E faults \in FaultsOn({"userProfile"}) :
        LET out == getUserProfileUnder(store, faults)
        IN /\ store' = out.store
           /\ last' = Last("getUserProfile", Some(faults), out)
           /\ UNCHANGED <<now, records, stats, tz, currentMonthStats, contexts>>

GetDailyRecordsUnder ==
    \E faults \in FaultsOn({"dailyRecords"}) :
        LET out == getDailyRecordsUnder(store, faults)
        IN /\ store' = out.store
           /\ last' = Last("getDailyRecords", Some(faults), out)
           /\ UNCHANGED <<now, records, stats, tz, currentMonthStats, contexts>>

GetUserSettingsUnder ==
    \E faults \in FaultsOn({"userSettings"}) :
        LET out == getUserSettingsUnder(store, faults, now)
        IN /\ store' = out.store
           /\ last' = Last("getUserSettings", Some(faults), out)
           /\ UNCHANGED <<now, records, stats, tz, currentMonthStats, contexts>>

HasUserSeenTutorialUnder ==
    \E faults \in FaultsOn({"tutorialSeen", "userProfile"}) :
        LET out == hasUserSeenTutorialUnder(store, faults)
        IN /\ store' = out.store
           /\ last' = Last("hasUserSeenTutorial", Some(faults), out)
           /\ UNCHANGED <<now, records, stats, tz, currentMonthStats, contexts>>

CreateDailyRecordUnder(inputs, cap) ==
    \E record \in inputs, faults \in FaultsOn({"dailyRecords"}) :
        LET out == createDailyRecordUnder(store, faults, record, now, 0)
        IN /\ Len(getDailyRecords(store)) < cap
           /\ store' = out.store
           /\ last' = Last("createDailyRecord", Some(record), out)
           /\ UNCHANGED <<now, records, stats, tz, currentMonthStats, contexts>>

UpdateDailyRecordUnder(ids, partials) ==
    \E recordId \in ids, updates \in partials, faults \in FaultsOn({"dailyRecords"}) :
        LET out == updateDailyRecordUnder(store, faults, recordId, updates, now, 0)
        IN /\ store' = out.store
           /\ last' = Last("updateDailyRecord", Some(recordId), out)
           /\ UNCHANGED <<now, records, stats, tz, currentMonthStats, contexts>>

DeleteDailyRecordUnder(ids) ==
    \E recordId \in ids, faults \in FaultsOn({"dailyRecords"}) :
        LET out == deleteDailyRecordUnder(store, faults, recordId, 0)
        IN /\ store' = out.store
           /\ last' = Last("deleteDailyRecord", Some(recordId), out)
           /\ UNCHANGED <<now, records, stats, tz, currentMonthStats, contexts>>

(* createDailyRecord as two steps of caller p, other calls running in between.
   First the backend serves the call's read of the list; calls[p] keeps the
   list read and the record to create. *)
CreateDailyRecordRead(inputs, cap) ==
    \E p \in Callers, record \in inputs :
        /\ ~(IsSome(calls[p]) /\ Get(calls[p]).phase = "read")
        /\ Len(getDailyRecords(store)) < cap
        /\ calls' = [calls EXCEPT ![p] =
                        Some([phase |-> "read", recs |-> getDailyRecords(store),
                              record |-> record, err |-> "", ret |-> None])]
        /\ last' = Read("getDailyRecords", NoArg, Some(getDailyRecords(store)))
        /\ UNCHANGED <<store, now, records, stats, tz, currentMonthStats,
                       auth, settings, home, recordsLoading>>

(* Then the call goes on from its await, writes the list back and returns;
   calls[p] keeps the outcome of the call. *)
CreateDailyRecordWrite(fails) ==
    \E p \in Callers, failAt \in fails :
        /\ IsSome(calls[p])
        /\ Get(calls[p]).phase = "read"
        /\ LET call == Get(calls[p])
               out == createDailyRecordWrite(store, call.recs, call.record, now, failAt)
           IN /\ store' = out.store
              /\ calls' = [calls EXCEPT ![p] =
                              Some([call EXCEPT !.phase = "done", !.err = out.err,
                                                !.ret = out.ret])]
              /\ last' = Last("createDailyRecord", Some(call.record), out)
        /\ UNCHANGED <<now, records, stats, tz, currentMonthStats,
                       auth, settings, home, recordsLoading>>

(* The providers' methods.  setRecords is followed by the effects on [records]
   of StatsProvider and of HomeScreen, as in RecordsChanged.  The backend
   serves reads in the order they were asked: when the loadRecords of a
   mutation has set the list, no earlier loadRecords is in flight any more. *)
SetRecords(recs) ==
    /\ records' = recs
    /\ stats' = calculateStats(recs, now)
    /\ currentMonthStats' = calculateCurrentMonthStats(recs, now, tz)

(* AuthProvider.register.  When it has set a user, the effects on [user] run:
   SettingsProvider calls loadSettings and RecordsProvider calls loadRecords,
   whose read of the list stays in flight until LoadRecords. *)
Register(emails, fails) ==
    \E email \in emails, password \in Passwords, name \in Names, failAt \in fails :
        LET out == register(store, auth, email, password, name, now, failAt)
            loaded == loadSettings(out.store, now)
        IN /\ Len(getAllUsers(store)) < Cardinality(emails)
           /\ auth' = out.mem
           /\ IF out.err = ""
              THEN /\ store' = loaded.store
                   /\ settings' = loaded.mem
                   /\ recordsLoading' = TRUE
              ELSE /\ store' = out.store
                   /\ UNCHANGED <<settings, recordsLoading>>
           /\ last' = [op |-> "AuthContext.register", arg |-> Some(email),
                       err |-> out.err, ret |-> None]
           /\ UNCHANGED <<now, records, stats, tz, currentMonthStats, home, calls>>

\* AuthProvider.login, with the same effects on [user]
Login(emails, fails) ==
    \E email \in emails, password \in Passwords, failAt \in fails :
        LET out == login(store, auth, email, password, now, failAt)
            loaded == loadSettings(out.store, now)
        IN /\ auth' = out.mem
           /\ IF out.err = ""
              THEN /\ store' = loaded.store
                   /\ settings' = loaded.mem
                   /\ recordsLoading' = TRUE
              ELSE /\ store' = out.store
                   /\ UNCHANGED <<settings, recordsLoading>>
           /\ last' = [op |-> "AuthContext.login", arg |-> Some(email),
                       err |-> out.err, ret |-> None]
           /\ UNCHANGED <<now, records, stats, tz, currentMonthStats, home, calls>>

(* AuthProvider.logout.  When it has set the user to null, the effect on
   [user] of RecordsProvider runs: setRecords([]). *)
Logout(fails) ==
    \E runtime \in Runtimes, failAt \in fails :
        LET out == logout(store, auth, runtime, failAt)
        IN /\ store' = out.store
           /\ auth' = out.mem
           /\ IF IsSome(auth.user) /\ out.mem.user = None
              THEN SetRecords(<<>>)
              ELSE UNCHANGED <<records, stats, currentMonthStats>>
           /\ last' = [op |-> "AuthContext.logout", arg |-> NoArg,
                       err |-> out.err, ret |-> None]
           /\ UNCHANGED <<now, tz, settings, home, recordsLoading, calls>>

\* AuthProvider.updateUserProfile
UpdateUserProfileInContext(partials, fails) ==
    \E updates \in partials, failAt \in fails :
        LET out == updateUserProfileInContext(store, auth, updates, now, failAt)
        IN /\ store' = out.store
           /\ auth' = out.mem
           /\ last' = [op |-> "AuthContext.updateUserProfile", arg |-> Some(updates),
                       err |-> out.err, ret |-> None]
           /\ UNCHANGED <<now, records, stats, tz, currentMonthStats,
                          settings, home, recordsLoading, calls>>

\* SettingsProvider.updateSettings
UpdateSettings(partials, fails) ==
    \E updates \in partials, failAt \in fails :
        LET out == updateSettings(store, settings, updates, now, failAt)
        IN /\ store' = out.store
           /\ settings' = out.mem
           /\ last' = [op |-> "SettingsContext.updateSettings", arg |-> Some(updates),
                       err |-> out.err, ret |-> None]
           /\ UNCHANGED <<now, records, stats, tz, currentMonthStats,
                          auth, home, recordsLoading, calls>>

\* RecordsProvider.loadRecords, called by the effect on [user]: its read of
\* the list is served and the list is set
LoadRecords ==
    /\ recordsLoading
    /\ SetRecords(loadRecords(store).mem)
    /\ recordsLoading' = FALSE
    /\ last' = [op |-> "RecordsContext.loadRecords", arg |-> NoArg,
                err |-> "", ret |-> None]
    /\ UNCHANGED <<store, now, tz, auth, settings, home, calls>>

\* RecordsProvider.createRecord
CreateRecord(inputs, cap, fails) ==
    \E recordData \in inputs, failAt \in fails :
        LET out == createRecord(store, records, recordData, now, failAt)
        IN /\ Len(getDailyRecords(store)) < cap
           /\ store' = out.store
           /\ IF out.err = ""
              THEN SetRecords(out.mem) /\ recordsLoading' = FALSE
              ELSE UNCHANGED <<records, stats, currentMonthStats, recordsLoading>>
           /\ last' = [op |-> "RecordsContext.createRecord", arg |-> Some(recordData),
                       err |-> out.err, ret |-> None]
           /\ UNCHANGED <<now, tz, auth, settings, home, calls>>

\* RecordsProvider.updateRecord
UpdateRecord(ids, partials, fails) ==
    \E recordId \in ids, updates \in partials, failAt \in fails :
        LET out == updateRecord(store, records, recordId, updates, now, failAt)
        IN /\ store' = out.store
           /\ IF out.err = ""
              THEN SetRecords(out.mem) /\ recordsLoading' = FALSE
              ELSE UNCHANGED <<records, stats, currentMonthStats, recordsLoading>>
           /\ last' = [op |-> "RecordsContext.updateRecord", arg |-> Some(recordId),
                       err |-> out.err, ret |-> None]
           /\ UNCHANGED <<now, tz, auth, settings, home, calls>>

\* RecordsProvider.deleteRecord
DeleteRecord(ids, fails) ==
    \E recordId \in ids, failAt \in fails :
        LET out == deleteRecord(store, records, recordId, failAt)
        IN /\ store' = out.store
           /\ IF out.err = ""
              THEN SetRecords(out.mem) /\ recordsLoading' = FALSE
              ELSE UNCHANGED <<records, stats, currentMonthStats, recordsLoading>>
           /\ last' = [op |-> "RecordsContext.deleteRecord", arg |-> Some(recordId),
                       err |-> out.err, ret |-> None]
           /\ UNCHANGED <<now, tz, auth, settings, home, calls>>

(* A tap on the check-in button of the home screen, which is shown to a
   logged-in user: toggleDailyCompletion up to its first await.  Taps are
   offered while fewer than cap records are stored. *)
ToggleDailyCompletion(cap) ==
    /\ IsSome(auth.user)
    /\ Len(getDailyRecords(store)) < cap
    /\ home' = toggleDailyCompletion(home, records, now)
    /\ last' = [op |-> "HomeScreen.toggleDailyCompletion", arg |-> NoArg,
                err |-> "", ret |-> None]
    /\ UNCHANGED <<store, now, records, stats, tz, currentMonthStats,
                   auth, settings, recordsLoading, calls>>

(* The check-in in flight goes on from its await: the record is written, the
   list is loaded again, and the finally block sets loading to false *)
ToggleDailyCompletionWrite(fails) ==
    \E failAt \in fails :
        /\ IsSome(home.target)
        /\ LET out == toggleDailyCompletionWrite(store, records, Get(home.target),
                                                 now, failAt)
           IN /\ store' = out.store
              /\ IF out.err = ""
                 THEN SetRecords(out.mem) /\ recordsLoading' = FALSE
                 ELSE UNCHANGED <<records, stats, currentMonthStats, recordsLoading>>
              /\ last' = [op |-> "HomeScreen.toggleDailyCompletion", arg |-> home.target,
                          err |-> "", ret |-> Some(out.err)]
        /\ home' = [home EXCEPT !.loading = FALSE, !.target = None]
        /\ UNCHANGED <<now, tz, auth, settings, calls>>

\* a text that JSON.parse rejects
MalformedJSON == "{"

\* LocalStorageService.importAllData, for a text that does not parse:
\* JSON.parse throws before any write and the catch block rethrows
ImportMalformedData ==
    LET out == Outcome(store, "SyntaxError", None)
    IN /\ store' = out.store
       /\ last' = Last("importAllData", Some(MalformedJSON), out)
       /\ UNCHANGED <<now, records, stats, tz, currentMonthStats, contexts>>

NoFault == {0}

(* The account operations under every casing of the emails, together with the
   operations that write the other keys, one input each. *)
Next ==
    \/ Tick
    \/ RegisterUser(Emails, NoFault)
    \/ LoginUser(Emails, NoFault)
    \/ LogoutUser(NoFault)
    \/ UpdateUserProfile({[email |-> <<"A", "B">>]}, NoFault)
    \/ CreateDailyRecord({[date |-> Today, capsules |-> 2, time |-> "08:00",
                           completed |-> TRUE]}, 1, NoFault)
    \/ UpdateDailyRecord({<<"record", Clock0>>}, {[completed |-> FALSE]}, NoFault)
    \/ DeleteDailyRecord({<<"record", Clock0>>}, NoFault)
    \/ UpdateUserSettings(SettingsUpdates, NoFault)
    \/ ImportAllData({d \in ImportDocs : /\ IsSome(d.profile)
                                         /\ IsSome(d.settings)
                                         /\ d.records = Some(<<>>)}, NoFault)
    \/ ClearAllData(NoFault)

Spec == Init /\ [][Next]_vars

(* The session operations over a backend whose writes may be rejected *)
NextSession ==
    \/ Tick
    \/ RegisterUser(Emails, 0..5)
    \/ LoginUser(Emails, 0..2)
    \/ GetCurrentUser
    \/ LogoutUser(0..1)
    \/ ClearAllData(0..1)

SpecSession == Init /\ [][NextSession]_vars

(* The record operations *)
NextRecords ==
    \/ Tick
    \/ CreateDailyRecord(RecordInputs, MaxRecords, NoFault)
    \/ GetDailyRecords
    \/ UpdateDailyRecord(RecordIds, RecordUpdates, NoFault)
    \/ DeleteDailyRecord(RecordIds, NoFault)
    \/ ClearAllDailyRecords(NoFault)
    \/ ImportAllData({d \in ImportDocs : d.profile = None /\ d.settings = None},
                     NoFault)

SpecRecords == Init /\ [][NextRecords]_vars

(* The operations that write the profile, the records and the settings, with
   export and import *)
NextData ==
    \/ Tick
    \/ RegisterUser({<<"a", "b">>}, NoFault)
    \/ UpdateUserProfile(ProfileUpdates, NoFault)
    \/ CreateDailyRecord({r \in RecordInputs : "notes" \notin DOMAIN r},
                         MaxRecords, NoFault)
    \/ UpdateUserSettings(SettingsUpdates, NoFault)
    \/ ExportAllData
    \/ ImportAllData({d \in ImportDocs :
                         Cardinality({k \in {"profile", "records", "settings"} :
                                         IsSome(d[k])}) <= 1}, NoFault)
    \/ ClearAllData(NoFault)

SpecData == Init /\ [][NextData]_vars

(* The tutorial operations, over a backend whose writes may be rejected, with
   the operations that write or remove the profile *)
NextTutorial ==
    \/ Tick
    \/ RegisterUser({<<"a", "b">>}, NoFault)
    \/ UpdateUserProfile({[hasSeenTutorial |-> TRUE]}, NoFault)
    \/ MarkTutorialAsSeen(0..2)
    \/ HasUserSeenTutorial
    \/ ResetTutorialStatus(0..2)
    \/ ImportAllData({d \in ImportDocs : /\ IsSome(d.profile)
                                         /\ d.records = None
                                         /\ d.settings = None}, NoFault)
    \/ ClearAllData(NoFault)

SpecTutorial == Init /\ [][NextTutorial]_vars

(* The three update operations, given partial updates with and without the
   timestamp fields, on entities made by registerUser and createDailyRecord *)
NextUpdates ==
    \/ Tick
    \/ RegisterUser({<<"a", "b">>}, NoFault)
    \/ CreateDailyRecord({r \in RecordInputs : "notes" \in DOMAIN r}, 1, NoFault)
    \/ UpdateUserProfile(ProfileUpdates \cup TimestampUpdates, NoFault)
    \/ UpdateDailyRecord(RecordIds, RecordUpdates \cup TimestampUpdates, NoFault)
    \/ UpdateUserSettings(SettingsUpdates \cup TimestampUpdates, NoFault)
    \/ ClearAllData(NoFault)

SpecUpdates == Init /\ [][NextUpdates]_vars

(* importAllData, given every combination of profile, records and settings
   and either user, on a store in which each key has been written *)
NextImport ==
    \/ RegisterUser({<<"a", "b">>}, NoFault)
    \/ LogoutUser(NoFault)
    \/ MarkTutorialAsSeen(NoFault)
    \/ CreateDailyRecord({r \in RecordInputs : "notes" \in DOMAIN r}, 1, NoFault)
    \/ UpdateUserSettings(SettingsUpdates, NoFault)
    \/ ImportAllData(ImportDocsAnyUser, NoFault)
    \/ ClearAllData(NoFault)

SpecImport == Init /\ [][NextImport]_vars

(* The statistics: the provider's record list grows by one record at a time,
   as it does when a record is created and the list is read back, and every
   change of the list runs calculateStats and calculateCurrentMonthStats.  The
   clock stands at some time of day of Today, on a device on UTC. *)
InitStats ==
    /\ store = EmptyStore
    /\ now \in Clock0 .. Clock0 + TicksPerDay - 1
    /\ last = Read("init", NoArg, None)
    /\ records = <<>>
    /\ stats = calculateStats(<<>>, now)
    /\ tz = 0
    /\ currentMonthStats = calculateCurrentMonthStats(<<>>, now, tz)
    /\ InitContexts

\* RecordsProvider.loadRecords: setRecords(dailyRecords), then the effect of
\* StatsProvider on [records]: calculateStats, and the effect of HomeScreen on
\* [records, currentDate]: calculateCurrentMonthStats
RecordsChanged(inputs, cap) ==
    \E r \in inputs, i \in 1..Len(records) + 1 :
        /\ Len(records) < cap
        /\ IsDateDescending(InsertAt(records, i, r))
        /\ records' = InsertAt(records, i, r)
        /\ stats' = calculateStats(records', now)
        /\ currentMonthStats' = calculateCurrentMonthStats(records', now, tz)
        /\ last' = Read("calculateStats", NoArg, None)
        /\ UNCHANGED <<store, now, tz, contexts>>

\* RecordsProvider's effect on [user] when the user logs out: setRecords([])
RecordsCleared ==
    /\ records' = <<>>
    /\ stats' = calculateStats(records', now)
    /\ currentMonthStats' = calculateCurrentMonthStats(records', now, tz)
    /\ last' = Read("calculateStats", NoArg, None)
    /\ UNCHANGED <<store, now, tz, contexts>>

NextStats ==
    \/ RecordsChanged(StatsRecords, MaxStatsRecords)
    \/ RecordsCleared

SpecStats == InitStats /\ [][NextStats]_vars

(* The home screen: the clock stands at some time of the first day of the
   month of Today, of Today or of the last day of that month, on a device in
   any time zone. *)
InitHome ==
    /\ store = EmptyStore
    /\ now \in {d * TicksPerDay + h :
                  d \in {monthStart(getMonth(Today)), Today,
                         monthStart(getMonth(Today) + 1) - 1},
                  h \in 0 .. TicksPerDay - 1}
    /\ last = Read("init", NoArg, None)
    /\ records = <<>>
    /\ stats = calculateStats(<<>>, now)
    /\ tz \in TimeZoneOffsets
    /\ currentMonthStats = calculateCurrentMonthStats(<<>>, now, tz)
    /\ InitContexts

NextHome ==
    \/ RecordsChanged(HomeRecords, MaxRecords)
    \/ RecordsCleared

SpecHome == InitHome /\ [][NextHome]_vars

(* The nine write operations over a backend that may reject any one of the
   writes of a call, importAllData also given a text that does not parse *)
NextFaults ==
    \/ RegisterUser({<<"a", "b">>}, 0..5)
    \/ LoginUser({<<"a", "b">>}, 0..2)
    \/ CreateDailyRecord({r \in RecordInputs : "notes" \in DOMAIN r}, 1, 0..1)
    \/ UpdateDailyRecord({<<"record", Clock0>>}, RecordUpdates, 0..1)
    \/ DeleteDailyRecord({<<"record", Clock0>>}, 0..1)
    \/ UpdateUserProfile(ProfileUpdates, 0..1)
    \/ UpdateUserSettings(SettingsUpdates, 0..1)
    \/ ImportAllData({d \in ImportDocs : /\ IsSome(d.profile)
                                         /\ IsSome(d.settings)
                                         /\ d.records # Some(<<>>)}, 0..3)
    \/ ImportMalformedData
    \/ ClearAllData(0..1)

SpecFaults == Init /\ [][NextFaults]_vars

(* Several people using one installation in turn: registration, login and
   logout of two accounts, with the tutorial operations *)
NextOnboarding ==
    \/ Tick
    \/ RegisterUser({<<"a", "b">>, <<"a", "c">>}, NoFault)
    \/ LoginUser({<<"a", "b">>, <<"a", "c">>}, NoFault)
    \/ LogoutUser(NoFault)
    \/ MarkTutorialAsSeen(NoFault)
    \/ HasUserSeenTutorial
    \/ ResetTutorialStatus(NoFault)

SpecOnboarding == Init /\ [][NextOnboarding]_vars

(* The statistics over long record lists: records dated today and tomorrow,
   several on each date *)
NextRate ==
    \/ RecordsChanged(RateRecords, MaxRateRecords)
    \/ RecordsCleared

SpecRate == InitStats /\ [][NextRate]_vars

(* The five read operations over a backend whose reads may fail, on the
   stores that registration, a record, the tutorial and logout leave *)
NextReads ==
    \/ Tick
    \/ RegisterUser({<<"a", "b">>}, NoFault)
    \/ LogoutUser(NoFault)
    \/ CreateDailyRecord({r \in RecordInputs : "notes" \in DOMAIN r}, 1, NoFault)
    \/ MarkTutorialAsSeen(NoFault)
    \/ ClearAllData(NoFault)
    \/ GetCurrentUserUnder
    \/ GetUserProfileUnder
    \/ GetDailyRecordsUnder
    \/ GetUserSettingsUnder
    \/ HasUserSeenTutorialUnder

SpecReads == Init /\ [][NextReads]_vars

(* The record operations over a backend whose reads may fail *)
NextRecordReads ==
    \/ Tick
    \/ CreateDailyRecordUnder(RecordInputs, MaxRecords)
    \/ UpdateDailyRecordUnder(RecordIds, RecordUpdates)
    \/ DeleteDailyRecordUnder(RecordIds)
    \/ GetDailyRecordsUnder

SpecRecordReads == Init /\ [][NextRecordReads]_vars

(* Two callers of createDailyRecord whose calls may overlap *)
NextRace ==
    \/ Tick
    \/ CreateDailyRecordRead({r \in RecordInputs : r.completed}, MaxRecords)
    \/ CreateDailyRecordWrite(NoFault)

SpecRace == Init /\ [][NextRace]_vars

(* The providers: the account, profile, settings and record methods called by
   the screens, the session removal of logout optionally rejected *)
NextContexts ==
    \/ Tick
    \/ Register({<<"a", "b">>}, NoFault)
    \/ Login({<<"a", "b">>}, NoFault)
    \/ Logout(0..1)
    \/ UpdateUserProfileInContext(ProfileUpdates, 0..1)
    \/ UpdateSettings(SettingsUpdates, 0..1)
    \/ LoadRecords
    \/ CreateRecord({r \in RecordInputs : "notes" \in DOMAIN r}, 1, 0..1)
    \/ UpdateRecord({<<"record", Clock0>>}, RecordUpdates, 0..1)
    \/ DeleteRecord({<<"record", Clock0>>}, 0..1)

SpecContexts == Init /\ [][NextContexts]_vars

(* The home screen's check-in with the session around it: registration,
   logout and login, the load of the record list that login starts, and
   taps on the check-in button at any moment, within one calendar day *)
NextCheckIn ==
    \/ Tick
    \/ Register({<<"a", "b">>}, NoFault)
    \/ Login({<<"a", "b">>}, NoFault)
    \/ Logout(NoFault)
    \/ LoadRecords
    \/ ToggleDailyCompletion(MaxRecords)
    \/ ToggleDailyCompletionWrite(0..1)

SpecCheckIn == Init /\ [][NextCheckIn]_vars

----------------------------------------------------------------------------
(* Properties *)

\* the record list as it is stored, in its on-disk order
StoredRecords == IF IsSome(store.dailyRecords) THEN Get(store.dailyRecords) ELSE <<>>

\* the emails are equal ignoring letter case
SameEmail(e1, e2) == toLowerCase(e1) = toLowerCase(e2)

\* a is a rearrangement of b
IsPermutation(a, b) ==
    /\ Len(a) = Len(b)
    /\ \E f \in [1..Len(a) -> 1..Len(a)] :
          /\ \A i, j \in 1..Len(a) : f[i] = f[j] => i = j
          /\ \A i \in 1..Len(a) : a[i] = b[f[i]]

(* C1: a registerUser call made while the users list holds a user whose email
   equals the given one ignoring case throws "Email already exists", and the
   users list (so its length) is after the call what it was before. *)
C1_DuplicateEmailRejected ==
    [][(/\ last'.op = "registerUser"
        /\ \E i \in DOMAIN getAllUsers(store) :
              SameEmail(getAllUsers(store)[i].email, Get(last'.arg)))
       => (/\ last'.err = "Email already exists"
           /\ store'.registeredUsers = store.registeredUsers
           /\ Len(getAllUsers(store')) = Len(getAllUsers(store)))]_vars

\* a registration was refused for an email stored in another casing
C1_Witness ==
    /\ last.op = "registerUser"
    /\ last.err = "Email already exists"
    /\ \A i \in DOMAIN getAllUsers(store) :
          getAllUsers(store)[i].email # Get(last.arg)

(* C2: in every reachable state no two users of the registered-users list
   have emails that are equal ignoring letter case. *)
C2_EmailsUnique ==
    \A i, j \in DOMAIN getAllUsers(store) :
        SameEmail(getAllUsers(store)[i].email, getAllUsers(store)[j].email)
            => i = j

\* two users are registered and a document has just been imported
C2_Witness ==
    /\ Len(getAllUsers(store)) = 2
    /\ last.op = "importAllData"
    /\ last.err = ""

(* C3: getCurrentUser returns the stored current user when the current-user
   key and the session-token key both hold a value, and null when either of
   them is absent. *)
C3_SessionGated ==
    last.op = "getCurrentUser" =>
        IF IsSome(store.currentUser) /\ IsSome(store.authToken)
        THEN last.ret = store.currentUser
        ELSE last.ret = None

\* getCurrentUser was called with a current user stored and no token (the
\* write of the token was rejected)
C3_Witness ==
    /\ last.op = "getCurrentUser"
    /\ IsSome(store.currentUser)
    /\ ~IsSome(store.authToken)

(* C4: getDailyRecords returns a rearrangement of exactly the stored records
   in which no record is dated earlier than the record that follows it. *)
C4_ReadSortedByDateDesc ==
    last.op = "getDailyRecords" =>
        /\ IsPermutation(Get(last.ret), StoredRecords)
        /\ \A i \in 1..Len(Get(last.ret)) - 1 :
              Get(last.ret)[i].date >= Get(last.ret)[i + 1].date

\* getDailyRecords was called on a list stored with an older record first
C4_Witness ==
    /\ last.op = "getDailyRecords"
    /\ Len(StoredRecords) >= 2
    /\ StoredRecords[1].date < StoredRecords[2].date

(* C5: updateDailyRecord with an id no stored record has throws "Record not
   found" and leaves the stored record list as it was. *)
C5_UpdateUnknownIdFails ==
    [][(/\ last'.op = "updateDailyRecord"
        /\ \A i \in DOMAIN StoredRecords : StoredRecords[i].id # Get(last'.arg))
       => (/\ last'.err = "Record not found"
           /\ store'.dailyRecords = store.dailyRecords)]_vars

\* an update was refused while records were stored
C5_Witness ==
    /\ last.op = "updateDailyRecord"
    /\ last.err = "Record not found"
    /\ Len(StoredRecords) >= 1

(* C6: deleteDailyRecord with an id no stored record has returns normally and
   getDailyRecords returns afterwards what it returned before; and after any
   deleteDailyRecord, deleting the same id again changes nothing more. *)
C6_DeleteUnknownIdNoOp ==
    [][/\ (/\ last'.op = "deleteDailyRecord"
           /\ \A i \in DOMAIN StoredRecords : StoredRecords[i].id # Get(last'.arg))
          => (/\ last'.err = ""
              /\ getDailyRecords(store') = getDailyRecords(store))
       /\ (last'.op = "deleteDailyRecord" /\ last'.err = "")
          => LET again == deleteDailyRecord(store', Get(last'.arg), 0)
             IN /\ again.err = ""
                /\ getDailyRecords(again.store) = getDailyRecords(store')]_vars

\* the id no record has was deleted from a list of two or more records
C6_Witness ==
    /\ last.op = "deleteDailyRecord"
    /\ last.err = ""
    /\ Get(last.arg) = AbsentId
    /\ Len(StoredRecords) >= 2

(* C7: importing the document exportAllData returned into an empty store gives
   a store whose getUserProfile, getDailyRecords and getUserSettings results
   equal those of the exporting store. *)
C7_ExportImportRoundTrip ==
    last.op = "exportAllData" =>
        LET fresh == importAllData(EmptyStore, Get(last.ret), 0).store
        IN /\ getUserProfile(fresh) = getUserProfile(store)
           /\ getDailyRecords(fresh) = getDailyRecords(store)
           /\ getUserSettings(fresh, now).ret = getUserSettings(store, now).ret

\* an export of a store holding a profile, two or more records stored out of
\* order, and settings that are not the defaults
C7_Witness ==
    /\ last.op = "exportAllData"
    /\ IsSome(store.userProfile)
    /\ Len(StoredRecords) >= 2
    /\ StoredRecords[1].date < StoredRecords[2].date
    /\ Get(store.userSettings).theme = "dark"

\* the completed records of the provider's list, most recent first
CompletedByDateDesc == sortByDateDesc(filterCompleted(records))

\* records 1 .. j of the completed records are dated today, today - 1, ...
PrefixOnConsecutiveDays(j) ==
    \A i \in 0..j - 1 : CompletedByDateDesc[i + 1].date = toISODate(now) - i

(* C8: currentStreak is the largest k such that, for every i in 0..k-1, the
   i-th completed record (by date descending) is dated today minus i days;
   completed records on today, today-1, today-2 and today-5 give 3, and a
   completed record dated after today gives 0. *)
C8_StreakIsLongestPrefix ==
    /\ stats.currentStreak \in 0..Len(CompletedByDateDesc)
    /\ PrefixOnConsecutiveDays(stats.currentStreak)
    /\ \A j \in 0..Len(CompletedByDateDesc) :
          PrefixOnConsecutiveDays(j) => j <= stats.currentStreak
    /\ [i \in 1..Len(CompletedByDateDesc) |-> CompletedByDateDesc[i].date]
          = <<Today, Today - 1, Today - 2, Today - 5>>
       => stats.currentStreak = 3
    /\ (\E i \in DOMAIN CompletedByDateDesc :
            CompletedByDateDesc[i].date > toISODate(now))
       => stats.currentStreak = 0

\* the statistics of completed records on today, today-1, today-2 and today-5
C8_Witness ==
    /\ [i \in 1..Len(CompletedByDateDesc) |-> CompletedByDateDesc[i].date]
          = <<Today, Today - 1, Today - 2, Today - 5>>
    /\ stats.currentStreak = 3

\* day d has a completed record
HasCompletedOn(d) == \E i \in DOMAIN records : records[i].completed /\ records[i].date = d

\* the number of consecutive days, back from today and today included, that
\* have a completed record
RECURSIVE DaysInARow(_)
DaysInARow(d) == IF HasCompletedOn(d) THEN 1 + DaysInARow(d - 1) ELSE 0

(* C9: currentStreak is the number of consecutive calendar days, counted back
   from and including today, on each of which a completed record exists. *)
C9_StreakCountsDays ==
    stats.currentStreak = DaysInARow(toISODate(now))

\* the first day of the 30-day window that ends today
WindowStart == toISODate(now) - WindowDays + 1

\* the completed records dated inside the 30-day window that ends today
CompletedInWindow ==
    Cardinality({i \in DOMAIN records :
                    /\ records[i].completed
                    /\ records[i].date >= WindowStart
                    /\ records[i].date <= toISODate(now)})

(* C10: completionRate is 100 * c / 30, c being the number of completed
   records dated inside the 30-day window that ends today: no record dated
   after today and none dated before the window is counted. *)
C10_RateCountsWindow ==
    stats.completionRate = Ratio(Percent * CompletedInWindow, WindowDays)

\* the month the device's calendar shows, its first and its last day
CurrentMonth == getMonth(localDay(now, tz))
FirstOfCurrentMonth == monthStart(CurrentMonth)
LastOfCurrentMonth == monthStart(CurrentMonth) + DaysInMonths[CurrentMonth] - 1

\* the completed records dated inside the current month
CompletedInCurrentMonth ==
    Cardinality({i \in DOMAIN records :
                    /\ records[i].completed
                    /\ records[i].date >= FirstOfCurrentMonth
                    /\ records[i].date <= LastOfCurrentMonth})

(* C11: on a device in any time zone, completedDays is the number of completed
   records dated on or after the first and on or before the last calendar day
   of the current month, totalDaysInMonth is the number of days of that month
   (28..31), and progress is completedDays / totalDaysInMonth * 100. *)
C11_MonthCountsCalendarDays ==
    /\ currentMonthStats.completedDays = CompletedInCurrentMonth
    /\ currentMonthStats.totalDaysInMonth = DaysInMonths[CurrentMonth]
    /\ currentMonthStats.totalDaysInMonth \in 28..31
    /\ currentMonthStats.progress
          = Ratio(currentMonthStats.completedDays * Percent,
                  currentMonthStats.totalDaysInMonth)

\* the positions of the provider's list that hold a completed record
CompletedPositions == {i \in DOMAIN records : records[i].completed}

\* the capsules of the records at the positions of S, added up
RECURSIVE CapsulesAt(_)
CapsulesAt(S) ==
    IF S = {} THEN 0
    ELSE LET i == CHOOSE j \in S : TRUE
         IN records[i].capsules + CapsulesAt(S \ {i})

(* C12: totalDays is the number of completed records, totalCapsules is the
   sum of the capsules of exactly those records, and averageCapsules is
   totalCapsules / totalDays when totalDays > 0 and 0 when totalDays = 0;
   records that are not completed count in none of the three. *)
C12_TotalsOverCompleted ==
    /\ stats.totalDays = Cardinality(CompletedPositions)
    /\ stats.totalCapsules = CapsulesAt(CompletedPositions)
    /\ stats.averageCapsules.den # 0
    /\ IF stats.totalDays > 0
       THEN stats.averageCapsules.num * stats.totalDays
               = stats.totalCapsules * stats.averageCapsules.den
       ELSE stats.averageCapsules.num = 0

\* the statistics of a list holding completed records of two and of three
\* capsules and a record that is not completed
C12_Witness ==
    /\ \E i \in DOMAIN records : ~records[i].completed
    /\ \E i, j \in CompletedPositions : records[i].capsules # records[j].capsules
    /\ stats.totalDays = Cardinality(CompletedPositions)
    /\ stats.totalDays < Len(records)

(* C13: a registerUser call that succeeds returns a user that is afterwards
   the last element of the registered-users list, the earlier elements being
   those of before; getCurrentUser then returns that user, getUserProfile a
   profile with the given name and email, and the stored settings are the
   defaults. *)
C13_RegisterEffects ==
    [][(last'.op = "registerUser" /\ last'.err = "")
       => LET user == Get(last'.ret)
              before == getAllUsers(store)
              after == getAllUsers(store')
              profile == getUserProfile(store')
              written == Get(store'.userSettings)
          IN /\ Len(after) = Len(before) + 1
             /\ after[Len(after)] = user
             /\ SubSeq(after, 1, Len(before)) = before
             /\ \A i \in DOMAIN before : before[i] # user
             /\ user.email = Get(last'.arg)
             /\ user.name \in Names
             /\ getCurrentUser(store') = Some(user)
             /\ IsSome(profile)
             /\ Get(profile).name = user.name
             /\ Get(profile).email = Get(last'.arg)
             /\ IsSome(store'.userSettings)
             /\ written.notifications = TRUE
             /\ written.reminderTime = "09:00"
             /\ written.dailyGoal = 2
             /\ written.weeklyGoal = 14
             /\ written.theme = "light"
             /\ written.language = "en"]_vars

\* a second user has just been registered
C13_Witness ==
    /\ last.op = "registerUser"
    /\ last.err = ""
    /\ Len(getAllUsers(store)) = 2
    /\ getCurrentUser(store) = last.ret

(* C14: loginUser succeeds exactly when some registered user's email equals
   the given one ignoring letter case, whatever the password; after a success
   getCurrentUser returns that user; a login that fails with "User not found"
   leaves the current-user key and the session-token key as they were. *)
C14_LoginByEmailOnly ==
    [][last'.op = "loginUser"
       => LET users == getAllUsers(store)
              matches == {i \in DOMAIN users :
                             SameEmail(users[i].email, Get(last'.arg))}
          IN /\ (last'.err = "") <=> (matches # {})
             /\ (last'.err = "")
                => \E i \in matches : /\ last'.ret = Some(users[i])
                                      /\ getCurrentUser(store') = Some(users[i])
             /\ (last'.err # "")
                => /\ last'.err = "User not found"
                   /\ store'.currentUser = store.currentUser
                   /\ store'.authToken = store.authToken]_vars

\* a login was refused while the session of a registered user was in place
C14_Witness ==
    /\ last.op = "loginUser"
    /\ last.err = "User not found"
    /\ IsSome(getCurrentUser(store))
    /\ Len(getAllUsers(store)) >= 1

\* the keys of the store other than the two session keys
NonSessionKeys == STORAGE_KEYS \ {"currentUser", "authToken"}

(* C15: logoutUser returns normally, also when no session exists; it removes
   the current-user key and the session-token key and changes no other key;
   and once getCurrentUser returns none it keeps returning none until a
   registerUser or loginUser call succeeds. *)
C15_LogoutClearsSession ==
    [][/\ last'.op = "logoutUser"
          => /\ last'.err = ""
             /\ store'.currentUser = None
             /\ store'.authToken = None
             /\ \A k \in NonSessionKeys : store'[k] = store[k]
             /\ getCurrentUser(store') = None
       /\ (/\ getCurrentUser(store) = None
           /\ ~(last'.op \in {"registerUser", "loginUser"} /\ last'.err = ""))
          => getCurrentUser(store') = None]_vars

(* C16: hasUserSeenTutorial returns true exactly when the tutorial-seen key
   holds "true" or the stored profile has hasSeenTutorial = true; after a
   markTutorialAsSeen that succeeds it returns true, with or without a stored
   profile, and after a resetTutorialStatus that succeeds it returns false. *)
C16_TutorialSeenIsEitherSource ==
    [][/\ last'.op = "hasUserSeenTutorial"
          => Get(last'.ret)
                = \/ store.tutorialSeen = Some("true")
                  \/ /\ IsSome(store.userProfile)
                     /\ "hasSeenTutorial" \in DOMAIN Get(store.userProfile)
                     /\ Get(store.userProfile).hasSeenTutorial = TRUE
       /\ (last'.op = "markTutorialAsSeen" /\ last'.err = "")
          => hasUserSeenTutorial(store') = TRUE
       /\ (last'.op = "resetTutorialStatus" /\ last'.err = "")
          => hasUserSeenTutorial(store') = FALSE]_vars

\* hasUserSeenTutorial answered true from the profile alone, the flag key
\* being absent
C16_Witness ==
    /\ last.op = "hasUserSeenTutorial"
    /\ Get(last.ret) = TRUE
    /\ store.tutorialSeen = None

\* list l without its element at position i
RemoveAt(l, i) == SubSeq(l, 1, i - 1) \o SubSeq(l, i + 1, Len(l))

(* C17: a createDailyRecord call that succeeds returns an id, and
   getDailyRecords holds afterwards the records it held before and one more,
   which carries that id and the date, capsules, time, notes and completed
   values given; the call succeeds and adds the record also when a record of
   the same date is already stored. *)
C17_CreateAddsOneRecord ==
    [][/\ (last'.op = "createDailyRecord" /\ last'.err = "")
          => LET before == getDailyRecords(store)
                 after == getDailyRecords(store')
                 given == Get(last'.arg)
             IN /\ IsSome(last'.ret)
                /\ Len(after) = Len(before) + 1
                /\ \E i \in DOMAIN after :
                      /\ after[i].id = Get(last'.ret)
                      /\ \A k \in DOMAIN given :
                            k \in DOMAIN after[i] /\ after[i][k] = given[k]
                      /\ "notes" \in DOMAIN after[i] <=> "notes" \in DOMAIN given
                      /\ IsPermutation(RemoveAt(after, i), before)
       /\ (/\ last'.op = "createDailyRecord"
           /\ \E i \in DOMAIN StoredRecords :
                 StoredRecords[i].date = Get(last'.arg).date)
          => last'.err = ""]_vars

\* a record was created for a date that already had a record
C17_Witness ==
    /\ last.op = "createDailyRecord"
    /\ last.err = ""
    /\ Cardinality({i \in DOMAIN StoredRecords :
                       StoredRecords[i].date = Get(last.arg).date}) >= 2

(* C18: in every reachable state the stored daily records have pairwise
   distinct ids, whatever the clock read when each was created. *)
C18_RecordIdsUnique ==
    \A i, j \in DOMAIN StoredRecords :
        StoredRecords[i].id = StoredRecords[j].id => i = j

\* entity after is entity before with the fields of updates written over it:
\* updatedAt is the current time t, createdAt is what it was, and the fields
\* that updates does not name are what they were
IsUpdateOf(after, before, updates, t) ==
    /\ after.updatedAt = t
    /\ "createdAt" \in DOMAIN before
          => "createdAt" \in DOMAIN after /\ after.createdAt = before.createdAt
    /\ \A k \in DOMAIN before \ (DOMAIN updates \cup {"updatedAt"}) :
          k \in DOMAIN after /\ after[k] = before[k]

(* C19: every updateUserProfile, updateDailyRecord and updateUserSettings
   that succeeds sets the updatedAt of the entity it writes to the current
   time and leaves its createdAt as it was, also when the partial update
   names createdAt or updatedAt; fields the partial does not name keep their
   values. *)
C19_UpdateKeepsCreatedAt ==
    [][/\ (/\ last'.op = "updateUserProfile"
           /\ last'.err = ""
           /\ IsSome(store.userProfile))
          => IsUpdateOf(Get(store'.userProfile), Get(store.userProfile),
                        Get(last'.arg), now)
       /\ (/\ last'.op = "updateUserSettings"
           /\ last'.err = ""
           /\ IsSome(store.userSettings))
          => IsUpdateOf(Get(store'.userSettings), Get(store.userSettings),
                        Get(last'.arg), now)
       /\ (last'.op = "updateDailyRecord" /\ last'.err = "")
          => LET before == getDailyRecords(store)
                 after == getDailyRecords(store')
                 i == findIndexById(before, Get(last'.arg))
             IN \E j \in DOMAIN after, updates \in RecordUpdates \cup TimestampUpdates :
                   /\ after[j].id = Get(last'.arg)
                   /\ \A k \in DOMAIN updates \ {"createdAt", "updatedAt"} :
                         after[j][k] = updates[k]
                   /\ IsUpdateOf(after[j], before[i], updates, now)]_vars

\* the value importAllData leaves under a key: the document's when the
\* document has one, the stored one otherwise
ImportedOrKept(inDocument, stored) == IF IsSome(inDocument) THEN inDocument ELSE stored

(* C20: an importAllData that succeeds replaces the stored profile, records
   and settings by the document's, each as a whole, for those of the three
   the document holds; it leaves the others of the three as they were, and
   the users list, the current user, the session token and the tutorial flag
   too, whatever user and metadata the document carries. *)
C20_ImportOverwritesPresentKeys ==
    [][(last'.op = "importAllData" /\ last'.err = "")
       => LET data == Get(last'.arg)
          IN /\ store'.userProfile = ImportedOrKept(data.profile, store.userProfile)
             /\ store'.dailyRecords = ImportedOrKept(data.records, store.dailyRecords)
             /\ store'.userSettings = ImportedOrKept(data.settings, store.userSettings)
             /\ \A k \in {"registeredUsers", "currentUser", "authToken",
                          "tutorialSeen"} : store'[k] = store[k]]_vars

\* a document of another user, holding a profile and settings and no records,
\* was imported into a store with a session, a record and the tutorial flag
C20_Witness ==
    /\ last.op = "importAllData"
    /\ last.err = ""
    /\ IsSome(Get(last.arg).user)
    /\ Get(last.arg).records = None
    /\ store.userProfile = Get(last.arg).profile
    /\ store.userSettings = Get(last.arg).settings
    /\ IsSome(store.userProfile)
    /\ IsSome(store.userSettings)
    /\ Len(StoredRecords) = 1
    /\ IsSome(getCurrentUser(store))
    /\ store.tutorialSeen = Some("true")


\* the operations C22 names
WriteOperations ==
    {"registerUser", "loginUser", "createDailyRecord", "updateDailyRecord",
     "deleteDailyRecord", "updateUserProfile", "updateUserSettings",
     "importAllData", "clearAllData"}

\* one of them has just failed on a rejected write or on a malformed document
WriteFailed(l) ==
    /\ l.op \in WriteOperations
    /\ l.err \in {"StorageWriteError", "SyntaxError"}

(* C22 as claimed: when a backend write fails during one of the nine write
   operations, or importAllData is given malformed JSON, the operation fails
   and the store afterwards equals the store before: no key keeps a partial
   effect. *)
C22_FailedWriteLeavesStoreUnchanged ==
    [][WriteFailed(last') => (last'.ret = None /\ store' = store)]_vars

\* the keys an operation writes with one backend call each, in the order of
\* the calls (an operation that makes a single backend call has none to list)
KeysInWriteOrder(op) ==
    CASE op = "registerUser" ->
            <<"registeredUsers", "currentUser", "authToken", "userProfile",
              "userSettings">>
      [] op = "loginUser" -> <<"currentUser", "authToken">>
      [] op = "importAllData" -> <<"userProfile", "dailyRecords", "userSettings">>
      [] OTHER -> <<>>

\* the store the call would have left had no write been rejected
StoreHadItSucceeded(l, st, t) ==
    CASE l.op = "registerUser" ->
            registerUser(st, Get(l.arg), CHOOSE p \in Passwords : TRUE,
                         CHOOSE n \in Names : TRUE, t, 0).store
      [] l.op = "loginUser" ->
            loginUser(st, Get(l.arg), CHOOSE p \in Passwords : TRUE, t, 0).store
      [] l.op = "importAllData" -> importAllData(st, Get(l.arg), 0).store
      [] OTHER -> st

(* C22, amended: the operation fails, and there is no rollback across keys.
   A key written by a backend call that came before the rejected one keeps
   its new value; the key of the rejected call and the keys of the calls that
   would have followed hold what they held before.  For the operations that
   make one backend call (create, update and delete record, update profile,
   clear all data) and for a malformed import that is the whole store;
   updateUserSettings may leave the default settings stored where none were. *)
C22_FailedWriteKeepsEarlierWrites ==
    [][WriteFailed(last') =>
        /\ last'.ret = None
        /\ IF last'.err = "SyntaxError" THEN store' = store
           ELSE IF last'.op = "updateUserSettings"
           THEN store' \in {store, getUserSettings(store, now).store}
           ELSE LET order == KeysInWriteOrder(last'.op)
                    full == StoreHadItSucceeded(last', store, now)
                IN IF order = <<>> THEN store' = store
                   ELSE \E n \in 0 .. Len(order) - 1 :
                           \A k \in STORAGE_KEYS :
                               store'[k] = IF \E i \in 1..n : order[i] = k
                                           THEN full[k] ELSE store[k]]_vars

\* a registration failed on its second write: the user is in the list of
\* registered users and no session was set
C22_Witness ==
    /\ last.op = "registerUser"
    /\ last.err = "StorageWriteError"
    /\ \E i \in DOMAIN getAllUsers(store) :
          getAllUsers(store)[i].email = Get(last.arg)
    /\ store.currentUser = None


(* C29 as claimed: exportAllData is a pure read: every key of the store holds
   the same value, or is equally absent, after the call as before it, also
   when no settings are stored. *)
C29_ExportLeavesStoreUnchanged ==
    [][last'.op = "exportAllData" => store' = store]_vars

(* C29, amended: exportAllData leaves every key but the settings key as it
   was; the settings key too when settings are stored, and when none are
   stored it holds the default settings after the call (getUserSettings,
   which the export calls, persists them). *)
C29_ExportWritesOnlyDefaultSettings ==
    [][last'.op = "exportAllData" =>
        /\ \A k \in STORAGE_KEYS \ {"userSettings"} : store'[k] = store[k]
        /\ store'.userSettings = IF IsSome(store.userSettings)
                                 THEN store.userSettings
                                 ELSE Some(defaultSettings(now))]_vars

\* an export was made from a store in which nobody is registered and no
\* settings had been written: it holds the default settings now
C29_Witness ==
    /\ last.op = "exportAllData"
    /\ store.registeredUsers = None
    /\ store.userSettings = Some(defaultSettings(now))
    /\ Get(last.ret).settings = store.userSettings


(* C28: immediately after a registerUser that succeeds, hasUserSeenTutorial
   returns false, whatever operations came before the registration, a
   markTutorialAsSeen followed by a logoutUser among them. *)
C28_NewUserHasNotSeenTutorial ==
    [][(last'.op = "registerUser" /\ last'.err = "")
       => hasUserSeenTutorial(store') = FALSE]_vars


\* the quotient q lies between 0 and 100 inclusive
IsPercentage(q) == 0 <= q.num /\ q.num <= Percent * q.den

(* C30: for every record list, records dated after today and several records
   of one date included, completionRate and monthlyProgress lie between 0
   and 100 inclusive. *)
C30_RateIsPercentage ==
    /\ IsPercentage(stats.completionRate)
    /\ IsPercentage(stats.monthlyProgress)


\* the five read operations C21 names
ReadOperations ==
    {"getCurrentUser", "getUserProfile", "getDailyRecords", "getUserSettings",
     "hasUserSeenTutorial"}

\* the call just made read key k, and the read failed: the backend rejected
\* it, or the key holds a text that does not parse
ReadFailed(k) ==
    \/ Get(last'.arg)[k] = "rejected"
    \/ Get(last'.arg)[k] = "malformed" /\ IsSome(store[k])

(* C21: the five read operations never fail.  When a read of getCurrentUser's
   two keys is rejected or the stored user does not parse it returns null;
   getUserProfile, getDailyRecords and getUserSettings whose key cannot be
   read or parsed return null, the empty list and the default settings (and
   write nothing); hasUserSeenTutorial returns false when the read of the flag
   is rejected, and when neither the flag nor the profile can be read. *)
C21_ReadsDegradeToDefaults ==
    [][last'.op \in ReadOperations =>
        /\ last'.err = ""
        /\ (/\ last'.op = "getCurrentUser"
            /\ \/ Get(last'.arg).currentUser = "rejected"
               \/ Get(last'.arg).authToken = "rejected"
               \/ ReadFailed("currentUser"))
           => (last'.ret = None /\ store' = store)
        /\ (last'.op = "getUserProfile" /\ ReadFailed("userProfile"))
           => (last'.ret = None /\ store' = store)
        /\ (last'.op = "getDailyRecords" /\ ReadFailed("dailyRecords"))
           => (last'.ret = Some(<<>>) /\ store' = store)
        /\ (last'.op = "getUserSettings" /\ ReadFailed("userSettings"))
           => (last'.ret = Some(defaultSettings(now)) /\ store' = store)
        /\ (/\ last'.op = "hasUserSeenTutorial"
            /\ \/ Get(last'.arg).tutorialSeen = "rejected"
               \/ ReadFailed("tutorialSeen") /\ ReadFailed("userProfile"))
           => (last'.ret = Some(FALSE) /\ store' = store)]_vars

\* getDailyRecords was called with a record stored and the read of the list
\* failing: it returned the empty list
C21_Witness ==
    /\ last.op = "getDailyRecords"
    /\ IsSome(last.arg)
    /\ Get(last.arg).dailyRecords # "ok"
    /\ Len(StoredRecords) = 1
    /\ last.ret = Some(<<>>)
    /\ last.err = ""


(* C26: a createDailyRecord, updateDailyRecord or deleteDailyRecord that
   returns normally removes no record from the store other than the one it
   targets (create targets none), also when the read of the list made inside
   the call fails: every other record stored before is stored after. *)
C26_WritesKeepOtherRecords ==
    [][(/\ last'.op \in {"createDailyRecord", "updateDailyRecord",
                         "deleteDailyRecord"}
        /\ last'.err = "")
       => LET before == StoredRecords
              after == IF IsSome(store'.dailyRecords)
                       THEN Get(store'.dailyRecords) ELSE <<>>
          IN \A i \in DOMAIN before :
                (last'.op = "createDailyRecord" \/ before[i].id # Get(last'.arg))
                   => \E j \in DOMAIN after : after[j] = before[i]]_vars


\* the call of caller p has returned
CallDone(p) == IsSome(calls[p]) /\ Get(calls[p]).phase = "done"

\* the record the call of caller p has made: its input with the id returned
\* and the timestamps, which are the instant the id is made of
RecordMadeBy(p) ==
    LET call == Get(calls[p])
        t == Get(call.ret)[2]
    IN Merge(call.record, [id |-> Get(call.ret), createdAt |-> t, updatedAt |-> t])

(* C23: when two createDailyRecord calls have both read the list before
   either wrote it back (both read the same list), both return normally with
   an id, and the stored list is the list they read with one new record
   appended, the record of one of the two calls: it does not hold both. *)
C23_InterleavedCreatesLoseOne ==
    \A p, q \in Callers :
        (/\ p # q
         /\ CallDone(p)
         /\ CallDone(q)
         /\ Get(calls[p]).recs = Get(calls[q]).recs)
        => /\ Get(calls[p]).err = ""
           /\ Get(calls[q]).err = ""
           /\ IsSome(Get(calls[p]).ret)
           /\ IsSome(Get(calls[q]).ret)
           /\ Len(StoredRecords) = Len(Get(calls[p]).recs) + 1
           /\ StoredRecords \in {Append(Get(calls[p]).recs, RecordMadeBy(p)),
                                 Append(Get(calls[p]).recs, RecordMadeBy(q))}

\* both calls read the empty list and returned; the records they made differ
\* and only the one of caller 2 is stored
C23_Witness ==
    /\ CallDone(1)
    /\ CallDone(2)
    /\ Get(calls[1]).recs = <<>>
    /\ Get(calls[2]).recs = <<>>
    /\ RecordMadeBy(1) # RecordMadeBy(2)
    /\ StoredRecords = <<RecordMadeBy(2)>>


(* C24: AuthContext.logout always ends with user = null, userProfile = null,
   isAuthenticated = false and loading = false in memory, and throws nothing
   to its caller, also when logoutUser fails to remove the session keys. *)
C24_LogoutAlwaysClearsMemory ==
    [][last'.op = "AuthContext.logout" =>
        /\ last'.err = ""
        /\ auth'.user = None
        /\ auth'.userProfile = None
        /\ auth'.isAuthenticated = FALSE
        /\ auth'.loading = FALSE]_vars

\* logout was called with a user logged in and the removal of the session
\* keys was rejected: the keys are still stored, the session in memory is gone
C24_Witness ==
    /\ last.op = "AuthContext.logout"
    /\ IsSome(store.currentUser)
    /\ IsSome(store.authToken)
    /\ auth = LoggedOut

(* C25: after a mutation made through a provider has returned normally, the
   provider's in-memory copy equals what the service returns on a re-read:
   records = getDailyRecords() after createRecord, updateRecord and
   deleteRecord, settings = getUserSettings() after updateSettings,
   userProfile = getUserProfile() after AuthContext.updateUserProfile. *)
C25_MemoryEqualsReread ==
    [][last'.err = "" =>
        /\ last'.op \in {"RecordsContext.createRecord", "RecordsContext.updateRecord",
                         "RecordsContext.deleteRecord"}
           => records' = getDailyRecords(store')
        /\ last'.op = "SettingsContext.updateSettings"
           => settings' = getUserSettings(store', now).ret
        /\ last'.op = "AuthContext.updateUserProfile"
           => auth'.userProfile = getUserProfile(store')]_vars


\* the stored record of the date the home screen shows is completed
TodayCompletedInStore ==
    \E i \in DOMAIN StoredRecords :
        /\ StoredRecords[i].date = home.currentDate
        /\ StoredRecords[i].completed

(* C27: starting from a store with no records, after any sequence of check-ins
   of the home screen, two quick taps and taps made before the in-memory list
   has been loaded again included, the store holds at most one record of each
   date, and a tap made when today's record is already completed writes
   nothing: no check-in is then in flight on its way to a write. *)
C27_OneRecordPerDate ==
    /\ \A i, j \in DOMAIN StoredRecords :
          StoredRecords[i].date = StoredRecords[j].date => i = j
    /\ IsSome(home.target) => ~TodayCompletedInStore

====
